---- MODULE Spec2Model ----
(***************************************************************************)
(* Model of the Coda MCP server's HTTP request adapter:                    *)
(* clean_params, CodaClient.__init__ and CodaClient.request of             *)
(* src/coda_mcp_server/server.py.                                          *)
(*                                                                         *)
(* Python strings are sequences of one-character strings, so that          *)
(* concatenation, slicing ([:200]), strip() and startswith() are computed. *)
(***************************************************************************)
EXTENDS Integers, Sequences, FiniteSets, TLC

\* ------------------------------------------------------------------------
\* Bounds of the model
\* ------------------------------------------------------------------------

\* number of CodaClient.request calls one behaviour makes
MaxCalls == 2

\* number of tool invocations the host runs concurrently
MaxTasks == 2

\* number of filler characters of the long response body; with its 6-character
\* opening tag the body is longer than TruncLen
LongBodyFill == 197

\* ------------------------------------------------------------------------
\* Python values
\* ------------------------------------------------------------------------

\* Python's None among texts: a one-element sequence no text equals (every
\* element of a text is a single character)
None == <<"<None>">>

\* str(v) of an optional text, as an f-string formats it
PyStr(v) == IF v = None THEN <<"N","o","n","e">> ELSE v

Digit == <<"0","1","2","3","4","5","6","7","8","9">>

\* str(n) of a natural number, as an f-string formats it
RECURSIVE IntToStr(_)
IntToStr(n) == IF n < 10 THEN <<Digit[n + 1]>> ELSE IntToStr(n \div 10) \o <<Digit[(n % 10) + 1]>>

\* s.startswith(p)
StartsWith(s, p) == Len(s) >= Len(p) /\ SubSeq(s, 1, Len(p)) = p

\* s[:n]
Prefix(s, n) == IF Len(s) <= n THEN s ELSE SubSeq(s, 1, n)

Whitespace == {" "}

RECURSIVE LStrip(_)
LStrip(s) == IF s # <<>> /\ Head(s) \in Whitespace THEN LStrip(Tail(s)) ELSE s

RECURSIVE RStrip(_)
RStrip(s) == IF s # <<>> /\ s[Len(s)] \in Whitespace THEN RStrip(SubSeq(s, 1, Len(s) - 1)) ELSE s

\* s.strip()
Strip(s) == RStrip(LStrip(s))

RECURSIVE Repeat(_, _)
Repeat(c, n) == IF n = 0 THEN <<>> ELSE <<c>> \o Repeat(c, n - 1)

\* ------------------------------------------------------------------------
\* JSON decoding (json.loads) of the texts the model uses: objects whose
\* members are strings or numbers, arrays of strings or numbers, strings,
\* numbers and null, without escapes or inner whitespace
\* ------------------------------------------------------------------------

EmptyFields == [k \in {} |-> <<>>]

JsonValue(t, f, i) == [type |-> t, fields |-> f, items |-> i]

JSONDecodeError == JsonValue("JSONDecodeError", EmptyFields, <<>>)
ContentTypeError == JsonValue("ContentTypeError", EmptyFields, <<>>)
JsonNone == JsonValue("None", EmptyFields, <<>>)
EmptyDict == JsonValue("dict", EmptyFields, <<>>)

IsDict(v) == v.type = "dict"

\* bool(v) of a decoded value
Truthy(v) ==
    CASE v.type = "dict" -> DOMAIN v.fields # {}
      [] v.type = "list" -> v.items # <<>>
      [] v.type = "str" -> v.items[1] # <<>>
      [] v.type = "int" -> v.items[1] # <<"0">>
      [] OTHER -> FALSE

IsDigit(c) == c \in {Digit[i] : i \in 1..10}

RECURSIVE ScanQuote(_, _)
ScanQuote(s, i) == IF i > Len(s) THEN 0 ELSE IF s[i] = "\"" THEN i ELSE ScanQuote(s, i + 1)

RECURSIVE ScanDigits(_, _)
ScanDigits(s, i) == IF i <= Len(s) /\ IsDigit(s[i]) THEN ScanDigits(s, i + 1) ELSE i

ParseFail == [ok |-> FALSE, type |-> "", text |-> <<>>, next |-> 0]

\* a string or a number starting at s[i]
ParseScalar(s, i) ==
    IF i > Len(s) THEN ParseFail
    ELSE IF s[i] = "\""
         THEN LET j == ScanQuote(s, i + 1)
              IN  IF j = 0 THEN ParseFail
                  ELSE [ok |-> TRUE, type |-> "str", text |-> SubSeq(s, i + 1, j - 1), next |-> j + 1]
    ELSE IF IsDigit(s[i])
         THEN LET j == ScanDigits(s, i)
              IN  [ok |-> TRUE, type |-> "int", text |-> SubSeq(s, i, j - 1), next |-> j]
    ELSE ParseFail

MembersFail == [ok |-> FALSE, fields |-> EmptyFields, next |-> 0]

\* the members of an object from s[i] up to its closing brace; a repeated key
\* keeps its last value
RECURSIVE ParseMembers(_, _, _)
ParseMembers(s, i, acc) ==
    LET k == ParseScalar(s, i)
    IN  IF ~k.ok \/ k.type # "str" \/ k.next > Len(s) \/ s[k.next] # ":" THEN MembersFail
        ELSE LET v == ParseScalar(s, k.next + 1)
                 fields == (k.text :> v.text) @@ acc
             IN  IF ~v.ok \/ v.next > Len(s) THEN MembersFail
                 ELSE IF s[v.next] = "," THEN ParseMembers(s, v.next + 1, fields)
                 ELSE IF s[v.next] = "}" THEN [ok |-> TRUE, fields |-> fields, next |-> v.next + 1]
                 ELSE MembersFail

ItemsFail == [ok |-> FALSE, items |-> <<>>, next |-> 0]

RECURSIVE ParseItems(_, _, _)
ParseItems(s, i, acc) ==
    LET v == ParseScalar(s, i)
    IN  IF ~v.ok \/ v.next > Len(s) THEN ItemsFail
        ELSE IF s[v.next] = "," THEN ParseItems(s, v.next + 1, Append(acc, v.text))
        ELSE IF s[v.next] = "]" THEN [ok |-> TRUE, items |-> Append(acc, v.text), next |-> v.next + 1]
        ELSE ItemsFail

\* json.loads(text): the decoded value, or JSONDecodeError
JsonLoads(text) ==
    LET s == Strip(text)
    IN  IF s = <<>> THEN JSONDecodeError
        ELSE IF s = <<"n","u","l","l">> THEN JsonNone
        ELSE IF s = <<"{","}">> THEN EmptyDict
        ELSE IF s = <<"[","]">> THEN JsonValue("list", EmptyFields, <<>>)
        ELSE IF s[1] = "{"
             THEN LET r == ParseMembers(s, 2, EmptyFields)
                  IN  IF r.ok /\ r.next = Len(s) + 1
                      THEN JsonValue("dict", r.fields, <<>>) ELSE JSONDecodeError
        ELSE IF s[1] = "["
             THEN LET r == ParseItems(s, 2, <<>>)
                  IN  IF r.ok /\ r.next = Len(s) + 1
                      THEN JsonValue("list", EmptyFields, r.items) ELSE JSONDecodeError
        ELSE LET r == ParseScalar(s, 1)
             IN  IF r.ok /\ r.next = Len(s) + 1
                 THEN JsonValue(r.type, EmptyFields, <<r.text>>) ELSE JSONDecodeError

\* ------------------------------------------------------------------------
\* Texts of the program
\* ------------------------------------------------------------------------

\* "https://coda.io/apis/v1"
BaseUrl == <<"h","t","t","p","s",":","/","/","c","o","d","a",".","i","o","/","a","p","i","s","/","v","1">>

\* "Bearer "
BearerText == <<"B","e","a","r","e","r"," ">>

\* "application/json"
ApplicationJson == <<"a","p","p","l","i","c","a","t","i","o","n","/","j","s","o","n">>

\* the default of response.headers.get("Retry-After", "60")
DefaultRetryAfter == <<"6","0">>

\* "Rate limit exceeded. Retry after " ... " seconds."
RateLimitHead == <<"R","a","t","e"," ","l","i","m","i","t"," ","e","x","c","e","e","d","e","d","."," ","R","e","t","r","y"," ","a","f","t","e","r"," ">>
RateLimitTail == <<" ","s","e","c","o","n","d","s",".">>

\* "API Error " ... ": "
ApiErrorHead == <<"A","P","I"," ","E","r","r","o","r"," ">>
ColonSpace == <<":"," ">>

\* "Invalid JSON response: "
InvalidJsonHead == <<"I","n","v","a","l","i","d"," ","J","S","O","N"," ","r","e","s","p","o","n","s","e",":"," ">>

\* "Network error: "
NetworkErrorHead == <<"N","e","t","w","o","r","k"," ","e","r","r","o","r",":"," ">>

\* "Unexpected error: "
UnexpectedHead == <<"U","n","e","x","p","e","c","t","e","d"," ","e","r","r","o","r",":"," ">>

\* the prefixes of the messages request re-raises unchanged:
\* ("API Error", "Rate limit", "Invalid JSON", "Network error")
CustomPrefixes == {
    <<"A","P","I"," ","E","r","r","o","r">>,
    <<"R","a","t","e"," ","l","i","m","i","t">>,
    <<"I","n","v","a","l","i","d"," ","J","S","O","N">>,
    <<"N","e","t","w","o","r","k"," ","e","r","r","o","r">> }

\* the length of the body prefix an "Invalid JSON response" message keeps
TruncLen == 200

MessageKey == <<"m","e","s","s","a","g","e">>
ErrorKey == <<"e","r","r","o","r">>

\* ------------------------------------------------------------------------
\* Inputs: environment, constructor arguments, requests, responses
\* ------------------------------------------------------------------------

\* values of the CODA_API_KEY environment variable: unset, "envkey", ""
EnvValues == { None, <<"e","n","v","k","e","y">>, <<>> }

\* values of the api_token argument: omitted, "mock-key"
ArgTokens == { None, <<"m","o","c","k","-","k","e","y">> }

\* the verbs of Method the calls of the model use
Methods == {"GET", "POST"}

\* "whoami", "docs/d1"
Endpoints == { <<"w","h","o","a","m","i">>, <<"d","o","c","s","/","d","1">> }

Statuses == {200, 201, 204, 304, 400, 404, 429, 500}

\* the reason phrase of a status line
Reason(status) ==
    CASE status = 200 -> <<"O","K">>
      [] status = 201 -> <<"C","r","e","a","t","e","d">>
      [] status = 204 -> <<"N","o"," ","C","o","n","t","e","n","t">>
      [] status = 304 -> <<"N","o","t"," ","M","o","d","i","f","i","e","d">>
      [] status = 400 -> <<"B","a","d"," ","R","e","q","u","e","s","t">>
      [] status = 404 -> <<"N","o","t"," ","F","o","u","n","d">>
      [] status = 429 -> <<"T","o","o"," ","M","a","n","y"," ","R","e","q","u","e","s","t","s">>
      [] OTHER -> <<"I","n","t","e","r","n","a","l"," ","S","e","r","v","e","r"," ","E","r","r","o","r">>

\* values of the Retry-After header: absent, "30"
RetryAfters == { None, <<"3","0">> }

\* a body longer than TruncLen that is not JSON: "<html>xxx..."
LongBody == <<"<","h","t","m","l",">">> \o Repeat("x", LongBodyFill)

BodyMessage == <<"{","\"","m","e","s","s","a","g","e","\"",":","\"","m","\"","}">>
BodyError == <<"{","\"","e","r","r","o","r","\"",":","\"","e","\"","}">>
BodyBoth == <<"{","\"","e","r","r","o","r","\"",":","\"","e","\"",",","\"","m","e","s","s","a","g","e","\"",":","\"","m","\"","}">>
BodyOther == <<"{","\"","c","o","d","e","\"",":","7","}">>
BodyList == <<"[","\"","a","\"","]">>
BodyBlank == <<" "," "," ">>
BodyOops == <<"o","o","p","s">>

\* response bodies: empty, blank, plain text, long markup, and JSON texts
Bodies == { <<>>, BodyBlank, BodyOops, LongBody, BodyMessage, BodyError, BodyBoth,
            BodyOther, BodyList, <<"{","}">> }

\* the responses the server may give: status line, Retry-After header, whether
\* the Content-Type is application/json, and the body text
Responses ==
    [status : Statuses, retryAfter : RetryAfters, jsonCT : BOOLEAN, text : Bodies]

\* exceptions of the HTTP round trip: connection refused or DNS failure
\* (aiohttp.ClientConnectorError), connection timeout
\* (aiohttp.ConnectionTimeoutError) and the expiry of the session's total
\* timeout (asyncio.TimeoutError, whose message is empty)
Raised(class, msg) == [class |-> class, msg |-> msg]

TransportErrors == {
    Raised("ClientConnectorError", <<"C","a","n","n","o","t"," ","c","o","n","n","e","c","t"," ","t","o"," ","h","o","s","t">>),
    Raised("ConnectionTimeoutError", <<"C","o","n","n","e","c","t","i","o","n"," ","t","i","m","e","o","u","t"," ","t","o"," ","h","o","s","t">>),
    Raised("TimeoutError", <<>>) }

\* isinstance(e, aiohttp.ClientError)
IsClientError(e) == e.class \in {"ClientConnectorError", "ConnectionTimeoutError"}

\* ------------------------------------------------------------------------
\* CodaClient.__init__
\* ------------------------------------------------------------------------

\* GetEnv with the argument taking precedence over the environment
GetEnvDefaultFirst(environ, default) == IF default # None THEN default ELSE environ

\* os.getenv("CODA_API_KEY", api_token): the variable when it is set, else
\* the default
GetEnv(environ, default) == IF environ # None THEN environ ELSE default

\* the client __init__ builds from the environment and its argument
NewClient(environ, api_token) ==
    LET token == GetEnv(environ, api_token)
    IN  [api_token |-> token,
         base_url |-> BaseUrl,
         headers |-> [Authorization |-> BearerText \o PyStr(token),
                      ContentType |-> ApplicationJson]]

\* the value of the client before it is constructed
NoClient ==
    [api_token |-> None, base_url |-> <<>>,
     headers |-> [Authorization |-> <<>>, ContentType |-> <<>>]]

\* ------------------------------------------------------------------------
\* CodaClient.request: classification of a response
\* ------------------------------------------------------------------------

\* what a call ends with: nothing yet, a returned value, a raised exception
NoOutcome == [kind |-> "none", class |-> "", msg |-> <<>>, value |-> JsonNone]
Return(v) == [kind |-> "return", class |-> "", msg |-> <<>>, value |-> v]
Raise(class, msg) == [kind |-> "raise", class |-> class, msg |-> msg, value |-> JsonNone]

\* HeaderGet that never reads the header
HeaderGetDefault(r, default) == default

\* response.headers.get("Retry-After", "60")
HeaderGet(r, default) == IF r.retryAfter # None THEN r.retryAfter ELSE default

\* raise Exception(f"Rate limit exceeded. Retry after {retry_after} seconds.")
RateLimitMessage(r) == RateLimitHead \o HeaderGet(r, DefaultRetryAfter) \o RateLimitTail

\* ResponseOk with the wrong threshold
ResponseOkBelow500(r) == 500 > r.status

\* response.ok: the status is below 400
ResponseOk(r) == 400 > r.status

\* await response.json(): ContentTypeError unless the Content-Type is
\* application/json, None for a blank body, else the decoded body
ResponseJson(r) ==
    IF ~r.jsonCT THEN ContentTypeError
    ELSE IF Strip(r.text) = <<>> THEN JsonNone
    ELSE JsonLoads(Strip(r.text))

\* error_data: the decoded body, or None when decoding raised
ErrorData(r) ==
    LET d == ResponseJson(r)
    IN  IF d.type \in {"JSONDecodeError", "ContentTypeError"} THEN JsonNone ELSE d

\* ErrorDetail that looks for `error` before `message`
ErrorDetailErrorFirst(r) ==
    LET error_data == ErrorData(r)
    IN  IF Truthy(error_data) /\ IsDict(error_data)
        THEN IF ErrorKey \in DOMAIN error_data.fields THEN error_data.fields[ErrorKey]
             ELSE IF MessageKey \in DOMAIN error_data.fields THEN error_data.fields[MessageKey]
             ELSE Reason(r.status)
        ELSE IF r.text # <<>> THEN r.text
        ELSE Reason(r.status)

\* ErrorDetail that falls back to the raw text before the reason phrase
ErrorDetailRawFirst(r) ==
    LET error_data == ErrorData(r)
    IN  IF Truthy(error_data) /\ IsDict(error_data)
           /\ MessageKey \in DOMAIN error_data.fields
        THEN error_data.fields[MessageKey]
        ELSE IF Truthy(error_data) /\ IsDict(error_data)
                /\ ErrorKey \in DOMAIN error_data.fields
        THEN error_data.fields[ErrorKey]
        ELSE IF r.text # <<>> THEN r.text
        ELSE Reason(r.status)

\* the detail of the message of a failing response
ErrorDetail(r) ==
    LET error_data == ErrorData(r)
    IN  IF Truthy(error_data) /\ IsDict(error_data)
        THEN IF MessageKey \in DOMAIN error_data.fields THEN error_data.fields[MessageKey]
             ELSE IF ErrorKey \in DOMAIN error_data.fields THEN error_data.fields[ErrorKey]
             ELSE Reason(r.status)
        ELSE IF r.text # <<>> THEN r.text
        ELSE Reason(r.status)

\* error_message = f"API Error {response.status}: ..."
ErrorMessage(r) == ApiErrorHead \o IntToStr(r.status) \o ColonSpace \o ErrorDetail(r)

\* InvalidJsonMessage that keeps the whole body
InvalidJsonMessageWhole(r) == InvalidJsonHead \o r.text

\* f"Invalid JSON response: {response_text[:200]}"
InvalidJsonMessage(r) == InvalidJsonHead \o Prefix(r.text, TruncLen)

\* TryBody without the test for status 204
TryBodyNo204(r) ==
    IF r.status = 429
    THEN [out |-> Raise("Exception", RateLimitMessage(r)), decoded |-> FALSE]
    ELSE IF ~ResponseOk(r)
    THEN [out |-> Raise("Exception", ErrorMessage(r)), decoded |-> TRUE]
    ELSE IF r.text = <<>>
    THEN [out |-> Return(EmptyDict), decoded |-> FALSE]
    ELSE LET v == JsonLoads(r.text)
         IN  IF v.type = "JSONDecodeError"
             THEN [out |-> Raise("Exception", InvalidJsonMessage(r)), decoded |-> TRUE]
             ELSE [out |-> Return(v), decoded |-> TRUE]

\* TryBody that gives an empty body to json.loads
TryBodyEmptyMalformed(r) ==
    IF r.status = 429
    THEN [out |-> Raise("Exception", RateLimitMessage(r)), decoded |-> FALSE]
    ELSE IF ~ResponseOk(r)
    THEN [out |-> Raise("Exception", ErrorMessage(r)), decoded |-> TRUE]
    ELSE IF r.status = 204
    THEN [out |-> Return(EmptyDict), decoded |-> FALSE]
    ELSE LET v == JsonLoads(r.text)
         IN  IF v.type = "JSONDecodeError"
             THEN [out |-> Raise("Exception", InvalidJsonMessage(r)), decoded |-> TRUE]
             ELSE [out |-> Return(v), decoded |-> TRUE]

\* the body of the try statement for a response that arrived: the outcome
\* and whether a JSON decoding of the body was attempted
TryBody(r) ==
    IF r.status = 429
    THEN [out |-> Raise("Exception", RateLimitMessage(r)), decoded |-> FALSE]
    ELSE IF ~ResponseOk(r)
    THEN [out |-> Raise("Exception", ErrorMessage(r)), decoded |-> TRUE]
    ELSE IF r.status = 204
    THEN [out |-> Return(EmptyDict), decoded |-> FALSE]
    ELSE IF r.text = <<>>
    THEN [out |-> Return(EmptyDict), decoded |-> FALSE]
    ELSE LET v == JsonLoads(r.text)
         IN  IF v.type = "JSONDecodeError"
             THEN [out |-> Raise("Exception", InvalidJsonMessage(r)), decoded |-> TRUE]
             ELSE [out |-> Return(v), decoded |-> TRUE]

\* IsCustomMessage that compares the whole message instead of its prefix
IsCustomMessageExact(msg) == msg \in CustomPrefixes

\* str(e).startswith(("API Error", "Rate limit", "Invalid JSON", "Network error"))
IsCustomMessage(msg) == \E p \in CustomPrefixes : StartsWith(msg, p)

\* the except clauses of request, applied to an exception e that left the
\* try body
Handlers(e) ==
    IF IsClientError(e) THEN Raise("Exception", NetworkErrorHead \o e.msg)
    ELSE IF IsCustomMessage(e.msg) THEN Raise(e.class, e.msg)
    ELSE Raise("Exception", UnexpectedHead \o e.msg)

\* the outcome of request for the result of the try body
Finish(out) == IF out.kind = "raise" THEN Handlers(Raised(out.class, out.msg)) ELSE out

\* ------------------------------------------------------------------------
\* Python values of tool arguments, query mappings and JSON bodies: a value
\* has the shape of a decoded JSON value; a str, an int and a bool hold
\* their str() as the one item, and a list holds the str() of its elements
\* ------------------------------------------------------------------------

StrVal(t) == JsonValue("str", EmptyFields, <<t>>)
IntVal(t) == JsonValue("int", EmptyFields, <<t>>)
BoolVal(b) == JsonValue("bool", EmptyFields, <<IF b THEN <<"T","r","u","e">> ELSE <<"F","a","l","s","e">>>>)
ListVal(items) == JsonValue("list", EmptyFields, items)
DictVal(fields) == JsonValue("dict", fields, <<>>)

\* str(v), as an f-string formats it
Format(v) == IF v.type \in {"str", "int", "bool"} THEN v.items[1] ELSE <<"N","o","n","e">>

UpperCase == <<"A","B","C","D","E","F","G","H","I","J","K","L","M",
               "N","O","P","Q","R","S","T","U","V","W","X","Y","Z">>
LowerCase == <<"a","b","c","d","e","f","g","h","i","j","k","l","m",
               "n","o","p","q","r","s","t","u","v","w","x","y","z">>

LowerChar(c) ==
    IF \E i \in 1..26 : UpperCase[i] = c
    THEN LowerCase[CHOOSE i \in 1..26 : UpperCase[i] = c]
    ELSE c

\* s.lower()
Lower(s) == [i \in 1..Len(s) |-> LowerChar(s[i])]

\* str(v).lower()
StrLower(v) == StrVal(Lower(Format(v)))

\* clean_params that leaves the booleans as they are
clean_params_native(params) ==
    [k \in {key \in DOMAIN params : params[key] # JsonNone} |-> params[k]]

\* clean_params that keeps the None values
clean_params_keep_none(params) ==
    [k \in DOMAIN params |->
        IF params[k].type = "bool" THEN StrLower(params[k]) ELSE params[k]]

\* clean_params(params): the None values removed, the booleans turned to
\* "true" and "false"
clean_params(params) ==
    [k \in {key \in DOMAIN params : params[key] # JsonNone} |->
        IF params[k].type = "bool" THEN StrLower(params[k]) ELSE params[k]]

\* a keyword argument of request (params=, json=): not given, or a mapping
NoKwarg == [given |-> FALSE, map |-> EmptyFields]
Kwarg(m) == [given |-> TRUE, map |-> m]

\* client.request(method, endpoint, params=..., json=...) as a tool calls it
Call(method, endpoint, params, json) ==
    [method |-> method, endpoint |-> endpoint, params |-> params, json |-> json]

\* ------------------------------------------------------------------------
\* The tools of server.py: the request each one makes for its arguments
\* ------------------------------------------------------------------------

\* an argument the caller leaves out
Omitted == JsonValue("omitted", EmptyFields, <<>>)

\* the value of a parameter that has a default
Default(v, d) == IF v = Omitted THEN d ELSE v

\* one optional entry of a dict built by `if v is not None: data[k] = v`
Entry(k, v) == IF v # JsonNone THEN (k :> v) ELSE EmptyFields

\* the params dict of list_docs
list_docs_params(a) ==
       (<<"i","s","O","w","n","e","r">> :> StrLower(a.is_owner))
    @@ (<<"i","s","P","u","b","l","i","s","h","e","d">> :> StrLower(a.is_published))
    @@ (<<"q","u","e","r","y">> :> a.query)
    @@ (<<"s","o","u","r","c","e","D","o","c">> :> a.source_doc)
    @@ (<<"i","s","S","t","a","r","r","e","d">> :> IF a.is_starred # JsonNone THEN StrLower(a.is_starred) ELSE JsonNone)
    @@ (<<"i","n","G","a","l","l","e","r","y">> :> IF a.in_gallery # JsonNone THEN StrLower(a.in_gallery) ELSE JsonNone)
    @@ (<<"w","o","r","k","s","p","a","c","e","I","d">> :> a.workspace_id)
    @@ (<<"f","o","l","d","e","r","I","d">> :> a.folder_id)
    @@ (<<"l","i","m","i","t">> :> a.limit)
    @@ (<<"p","a","g","e","T","o","k","e","n">> :> a.page_token)

\* list_docs that does not clean its params
list_docs_raw(a) == Call("GET", <<"d","o","c","s">>, Kwarg(list_docs_params(a)), NoKwarg)

\* list_docs
list_docs(a) == Call("GET", <<"d","o","c","s">>, Kwarg(clean_params(list_docs_params(a))), NoKwarg)

\* update_page
update_page(a) ==
    LET data ==
            Entry(<<"n","a","m","e">>, a.name)
         @@ Entry(<<"s","u","b","t","i","t","l","e">>, a.subtitle)
         @@ Entry(<<"i","c","o","n","N","a","m","e">>, a.icon_name)
         @@ Entry(<<"i","m","a","g","e","U","r","l">>, a.image_url)
         @@ Entry(<<"i","s","H","i","d","d","e","n">>, a.is_hidden)
         @@ Entry(<<"c","o","n","t","e","n","t","U","p","d","a","t","e">>, a.content_update)
    IN  Call("PUT", <<"d","o","c","s","/">> \o Format(a.doc_id) \o <<"/","p","a","g","e","s","/">> \o Format(a.page_id_or_name),
             NoKwarg, Kwarg(data))

\* begin_page_content_export that always asks for the default format
begin_page_content_export_html(a) ==
    LET data == (<<"o","u","t","p","u","t","F","o","r","m","a","t">> :> StrVal(<<"h","t","m","l">>))
    IN  Call("POST",
             <<"d","o","c","s","/">> \o Format(a.doc_id) \o <<"/","p","a","g","e","s","/">> \o Format(a.page_id_or_name)
                 \o <<"/","e","x","p","o","r","t">>,
             NoKwarg, Kwarg(data))

\* begin_page_content_export
begin_page_content_export(a) ==
    LET output_format == Default(a.output_format, StrVal(<<"h","t","m","l">>))
        data == (<<"o","u","t","p","u","t","F","o","r","m","a","t">> :> output_format)
    IN  Call("POST",
             <<"d","o","c","s","/">> \o Format(a.doc_id) \o <<"/","p","a","g","e","s","/">> \o Format(a.page_id_or_name)
                 \o <<"/","e","x","p","o","r","t">>,
             NoKwarg, Kwarg(data))

\* get_page_content_export_status: the poll
get_page_content_export_status(a) ==
    Call("GET",
         <<"d","o","c","s","/">> \o Format(a.doc_id) \o <<"/","p","a","g","e","s","/">> \o Format(a.page_id_or_name)
             \o <<"/","e","x","p","o","r","t","/">> \o Format(a.request_id),
         NoKwarg, NoKwarg)

\* list_columns
list_columns(a) ==
    LET params ==
            (<<"l","i","m","i","t">> :> a.limit)
         @@ (<<"p","a","g","e","T","o","k","e","n">> :> a.page_token)
         @@ (<<"v","i","s","i","b","l","e","O","n","l","y">> :> a.visible_only)
    IN  Call("GET",
             <<"d","o","c","s","/">> \o Format(a.doc_id) \o <<"/","t","a","b","l","e","s","/">> \o Format(a.table_id_or_name)
                 \o <<"/","c","o","l","u","m","n","s">>,
             Kwarg(clean_params(params)), NoKwarg)

\* list_rows
list_rows(a) ==
    LET params ==
            (<<"q","u","e","r","y">> :> a.query)
         @@ (<<"s","o","r","t","B","y">> :> a.sort_by)
         @@ (<<"u","s","e","C","o","l","u","m","n","N","a","m","e","s">> :> a.use_column_names)
         @@ (<<"v","a","l","u","e","F","o","r","m","a","t">> :> a.value_format)
         @@ (<<"v","i","s","i","b","l","e","O","n","l","y">> :> a.visible_only)
         @@ (<<"l","i","m","i","t">> :> a.limit)
         @@ (<<"p","a","g","e","T","o","k","e","n">> :> a.page_token)
         @@ (<<"s","y","n","c","T","o","k","e","n">> :> a.sync_token)
    IN  Call("GET",
             <<"d","o","c","s","/">> \o Format(a.doc_id) \o <<"/","t","a","b","l","e","s","/">> \o Format(a.table_id_or_name)
                 \o <<"/","r","o","w","s">>,
             Kwarg(clean_params(params)), NoKwarg)

\* get_row
get_row(a) ==
    LET params ==
            (<<"u","s","e","C","o","l","u","m","n","N","a","m","e","s">> :> a.use_column_names)
         @@ (<<"v","a","l","u","e","F","o","r","m","a","t">> :> a.value_format)
    IN  Call("GET",
             <<"d","o","c","s","/">> \o Format(a.doc_id) \o <<"/","t","a","b","l","e","s","/">> \o Format(a.table_id_or_name)
                 \o <<"/","r","o","w","s","/">> \o Format(a.row_id_or_name),
             Kwarg(clean_params(params)), NoKwarg)

\* the data dict of upsert_rows
upsert_rows_data(a) ==
       (<<"r","o","w","s">> :> a.rows)
    @@ (<<"k","e","y","C","o","l","u","m","n","s">> :> a.key_columns)
    @@ (<<"d","i","s","a","b","l","e","P","a","r","s","i","n","g">> :> a.disable_parsing)

\* upsert_rows that does not clean its data
upsert_rows_raw(a) ==
    Call("POST",
         <<"d","o","c","s","/">> \o Format(a.doc_id) \o <<"/","t","a","b","l","e","s","/">> \o Format(a.table_id_or_name)
             \o <<"/","r","o","w","s">>,
         NoKwarg, Kwarg(upsert_rows_data(a)))

\* upsert_rows
upsert_rows(a) ==
    Call("POST",
         <<"d","o","c","s","/">> \o Format(a.doc_id) \o <<"/","t","a","b","l","e","s","/">> \o Format(a.table_id_or_name)
             \o <<"/","r","o","w","s">>,
         NoKwarg, Kwarg(clean_params(upsert_rows_data(a))))

\* update_row
update_row(a) ==
    LET data ==
            (<<"r","o","w">> :> a.row)
         @@ (<<"d","i","s","a","b","l","e","P","a","r","s","i","n","g">> :> a.disable_parsing)
    IN  Call("PUT",
             <<"d","o","c","s","/">> \o Format(a.doc_id) \o <<"/","t","a","b","l","e","s","/">> \o Format(a.table_id_or_name)
                 \o <<"/","r","o","w","s","/">> \o Format(a.row_id_or_name),
             NoKwarg, Kwarg(clean_params(data)))

\* whoami
whoami(a) == Call("GET", <<"w","h","o","a","m","i">>, NoKwarg, NoKwarg)

\* get_doc_info
get_doc_info(a) ==
    Call("GET", <<"d","o","c","s","/">> \o Format(a.doc_id),
         NoKwarg, NoKwarg)

\* delete_doc
delete_doc(a) ==
    Call("DELETE", <<"d","o","c","s","/">> \o Format(a.doc_id),
         NoKwarg, NoKwarg)

\* update_doc
update_doc(a) ==
    LET data == (<<"t","i","t","l","e">> :> a.title) @@ (<<"i","c","o","n","N","a","m","e">> :> a.icon_name)
    IN  Call("PATCH", <<"d","o","c","s","/">> \o Format(a.doc_id), NoKwarg, Kwarg(clean_params(data)))

\* one optional entry of a dict built by `if v: data[k] = v`
TruthyEntry(k, v) == IF Truthy(v) THEN (k :> v) ELSE EmptyFields

\* create_doc that tests its optional arguments with `is not None`
create_doc_not_none(a) ==
    LET request_data ==
            (<<"t","i","t","l","e">> :> a.title)
         @@ Entry(<<"s","o","u","r","c","e","D","o","c">>, a.source_doc)
         @@ Entry(<<"t","i","m","e","z","o","n","e">>, a.timezone)
         @@ Entry(<<"f","o","l","d","e","r","I","d">>, a.folder_id)
         @@ Entry(<<"w","o","r","k","s","p","a","c","e","I","d">>, a.workspace_id)
         @@ Entry(<<"i","n","i","t","i","a","l","P","a","g","e">>, a.initial_page)
    IN  Call("POST", <<"d","o","c","s">>, NoKwarg, Kwarg(request_data))

\* create_doc
create_doc(a) ==
    LET request_data ==
            (<<"t","i","t","l","e">> :> a.title)
         @@ TruthyEntry(<<"s","o","u","r","c","e","D","o","c">>, a.source_doc)
         @@ TruthyEntry(<<"t","i","m","e","z","o","n","e">>, a.timezone)
         @@ TruthyEntry(<<"f","o","l","d","e","r","I","d">>, a.folder_id)
         @@ TruthyEntry(<<"w","o","r","k","s","p","a","c","e","I","d">>, a.workspace_id)
         @@ TruthyEntry(<<"i","n","i","t","i","a","l","P","a","g","e">>, a.initial_page)
    IN  Call("POST", <<"d","o","c","s">>, NoKwarg, Kwarg(request_data))

\* list_pages
list_pages(a) ==
    LET params == (<<"l","i","m","i","t">> :> a.limit) @@ (<<"p","a","g","e","T","o","k","e","n">> :> a.page_token)
    IN  Call("GET", <<"d","o","c","s","/">> \o Format(a.doc_id) \o <<"/","p","a","g","e","s">>,
             Kwarg(clean_params(params)), NoKwarg)

\* get_page
get_page(a) ==
    Call("GET", <<"d","o","c","s","/">> \o Format(a.doc_id) \o <<"/","p","a","g","e","s","/">> \o Format(a.page_id_or_name),
         NoKwarg, NoKwarg)

\* delete_page
delete_page(a) ==
    Call("DELETE", <<"d","o","c","s","/">> \o Format(a.doc_id) \o <<"/","p","a","g","e","s","/">> \o Format(a.page_id_or_name),
         NoKwarg, NoKwarg)

\* create_page
create_page(a) ==
    LET data ==
            (<<"n","a","m","e">> :> a.name)
         @@ Entry(<<"s","u","b","t","i","t","l","e">>, a.subtitle)
         @@ Entry(<<"i","c","o","n","N","a","m","e">>, a.icon_name)
         @@ Entry(<<"i","m","a","g","e","U","r","l">>, a.image_url)
         @@ Entry(<<"p","a","r","e","n","t","P","a","g","e","I","d">>, a.parent_page_id)
         @@ Entry(<<"p","a","g","e","C","o","n","t","e","n","t">>, a.page_content)
    IN  Call("POST", <<"d","o","c","s","/">> \o Format(a.doc_id) \o <<"/","p","a","g","e","s">>,
             NoKwarg, Kwarg(data))

\* list_tables
list_tables(a) ==
    LET params ==
            (<<"l","i","m","i","t">> :> a.limit)
         @@ (<<"p","a","g","e","T","o","k","e","n">> :> a.page_token)
         @@ (<<"s","o","r","t","B","y">> :> a.sort_by)
         @@ (<<"t","a","b","l","e","T","y","p","e","s">> :> a.table_types)
    IN  Call("GET", <<"d","o","c","s","/">> \o Format(a.doc_id) \o <<"/","t","a","b","l","e","s">>,
             Kwarg(clean_params(params)), NoKwarg)

\* get_table
get_table(a) ==
    Call("GET", <<"d","o","c","s","/">> \o Format(a.doc_id) \o <<"/","t","a","b","l","e","s","/">> \o Format(a.table_id_or_name),
         NoKwarg, NoKwarg)

\* get_column
get_column(a) ==
    Call("GET", <<"d","o","c","s","/">> \o Format(a.doc_id) \o <<"/","t","a","b","l","e","s","/">> \o Format(a.table_id_or_name) \o <<"/","c","o","l","u","m","n","s","/">> \o Format(a.column_id_or_name),
         NoKwarg, NoKwarg)

\* delete_row
delete_row(a) ==
    Call("DELETE", <<"d","o","c","s","/">> \o Format(a.doc_id) \o <<"/","t","a","b","l","e","s","/">> \o Format(a.table_id_or_name) \o <<"/","r","o","w","s","/">> \o Format(a.row_id_or_name),
         NoKwarg, NoKwarg)

\* delete_rows
delete_rows(a) ==
    LET data == (<<"r","o","w","I","d","s">> :> a.row_ids)
    IN  Call("DELETE", <<"d","o","c","s","/">> \o Format(a.doc_id) \o <<"/","t","a","b","l","e","s","/">> \o Format(a.table_id_or_name) \o <<"/","r","o","w","s">>,
             NoKwarg, Kwarg(data))

\* push_button
push_button(a) ==
    Call("POST",
         <<"d","o","c","s","/">> \o Format(a.doc_id) \o <<"/","t","a","b","l","e","s","/">> \o Format(a.table_id_or_name) \o <<"/","r","o","w","s","/">> \o Format(a.row_id_or_name) \o <<"/","b","u","t","t","o","n","s","/">> \o Format(a.column_id_or_name),
         NoKwarg, Kwarg(EmptyFields))

\* list_formulas
list_formulas(a) ==
    LET params == (<<"l","i","m","i","t">> :> a.limit) @@ (<<"p","a","g","e","T","o","k","e","n">> :> a.page_token) @@ (<<"s","o","r","t","B","y">> :> a.sort_by)
    IN  Call("GET", <<"d","o","c","s","/">> \o Format(a.doc_id) \o <<"/","f","o","r","m","u","l","a","s">>,
             Kwarg(clean_params(params)), NoKwarg)

\* get_formula
get_formula(a) ==
    Call("GET", <<"d","o","c","s","/">> \o Format(a.doc_id) \o <<"/","f","o","r","m","u","l","a","s","/">> \o Format(a.formula_id_or_name),
         NoKwarg, NoKwarg)

\* the request a tool makes first
ToolCall(tool, a) ==
    CASE tool = "list_docs" -> list_docs(a)
      [] tool = "update_page" -> update_page(a)
      [] tool = "begin_page_content_export" -> begin_page_content_export(a)
      [] tool = "get_page_content_export_status" -> get_page_content_export_status(a)
      [] tool = "list_columns" -> list_columns(a)
      [] tool = "list_rows" -> list_rows(a)
      [] tool = "get_row" -> get_row(a)
      [] tool = "upsert_rows" -> upsert_rows(a)
      [] tool = "update_row" -> update_row(a)
      [] tool = "whoami" -> whoami(a)
      [] tool = "get_doc_info" -> get_doc_info(a)
      [] tool = "delete_doc" -> delete_doc(a)
      [] tool = "update_doc" -> update_doc(a)
      [] tool = "create_doc" -> create_doc(a)
      [] tool = "list_pages" -> list_pages(a)
      [] tool = "get_page" -> get_page(a)
      [] tool = "delete_page" -> delete_page(a)
      [] tool = "create_page" -> create_page(a)
      [] tool = "list_tables" -> list_tables(a)
      [] tool = "get_table" -> get_table(a)
      [] tool = "get_column" -> get_column(a)
      [] tool = "delete_row" -> delete_row(a)
      [] tool = "delete_rows" -> delete_rows(a)
      [] tool = "push_button" -> push_button(a)
      [] tool = "list_formulas" -> list_formulas(a)
      [] tool = "get_formula" -> get_formula(a)

\* ------------------------------------------------------------------------
\* Inputs of the tools
\* ------------------------------------------------------------------------

Bools == {BoolVal(TRUE), BoolVal(FALSE)}
OptBools == Bools \cup {JsonNone}

\* an optional argument: None or the value
Opt(v) == {JsonNone, v}

DocId == StrVal(<<"d","o","c","1">>)
PageId == StrVal(<<"p","a","g","e","1">>)
TableId == StrVal(<<"t","1">>)
RowId == StrVal(<<"r","1">>)
RequestId == StrVal(<<"r","e","q","1">>)

\* a limit; an opaque page token
SomeLimit == IntVal(<<"0">>)
SomeToken == StrVal(<<"t","k">>)

\* rows=[{"cells": [{"column": "Name", "value": "A"}]}]
SomeRows == ListVal(<< <<"{","'","c","e","l","l","s","'",":"," ","[","{","'","c","o","l","u","m","n","'",":"," ","'","N","a","m","e","'",","," ","'","v","a","l","u","e","'",":"," ","'","A","'","}","]","}">> >>)
SomeRow == DictVal(<<"c","e","l","l","s">> :> <<"[","{","'","c","o","l","u","m","n","'",":"," ","'","N","a","m","e","'",","," ","'","v","a","l","u","e","'",":"," ","'","A","'","}","]">>)

\* key_columns=["Name"]
SomeKeyColumns == ListVal(<< <<"N","a","m","e">> >>)

\* content_update={"insertionMode": "append", ...}
SomeContentUpdate == DictVal(<<"i","n","s","e","r","t","i","o","n","M","o","d","e">> :> <<"a","p","p","e","n","d">>)

ListDocsArgs ==
    [is_owner : Bools, is_published : Bools, query : {StrVal(<<"x">>), StrVal(<<>>)},
     source_doc : Opt(DocId), is_starred : OptBools, in_gallery : OptBools,
     workspace_id : Opt(StrVal(<<"w","s">>)), folder_id : Opt(StrVal(<<"f","l">>)),
     limit : Opt(SomeLimit), page_token : Opt(SomeToken)]

UpdatePageArgs ==
    [doc_id : {DocId}, page_id_or_name : {PageId},
     name : Opt(StrVal(<<"P","a","g","e">>)), subtitle : Opt(StrVal(<<>>)),
     icon_name : Opt(StrVal(<<"s","t","a","r">>)), image_url : Opt(StrVal(<<"h","t","t","p","s",":","/","/","x","/","i">>)),
     is_hidden : OptBools, content_update : Opt(SomeContentUpdate)]

\* output_format is omitted (the default "html") or given
BeginExportArgs ==
    [doc_id : {DocId}, page_id_or_name : {PageId},
     output_format : {Omitted, StrVal(<<"h","t","m","l">>), StrVal(<<"m","a","r","k","d","o","w","n">>)}]

ExportStatusArgs ==
    [doc_id : {DocId}, page_id_or_name : {PageId}, request_id : {RequestId}]

ListColumnsArgs ==
    [doc_id : {DocId}, table_id_or_name : {TableId},
     limit : Opt(SomeLimit), page_token : Opt(SomeToken), visible_only : OptBools]

ListRowsArgs ==
    [doc_id : {DocId}, table_id_or_name : {TableId},
     query : Opt(StrVal(<<"S","t","a","t","u","s","=","\"","C","o","m","p","l","e","t","e","\"">>)), sort_by : Opt(StrVal(<<"n","a","t","u","r","a","l">>)),
     use_column_names : OptBools, value_format : Opt(StrVal(<<"r","i","c","h">>)),
     visible_only : OptBools, limit : Opt(SomeLimit), page_token : Opt(SomeToken),
     sync_token : Opt(StrVal(<<"s","y">>))]

GetRowArgs ==
    [doc_id : {DocId}, table_id_or_name : {TableId}, row_id_or_name : {RowId},
     use_column_names : OptBools, value_format : Opt(StrVal(<<"r","i","c","h">>))]

UpsertRowsArgs ==
    [doc_id : {DocId}, table_id_or_name : {TableId}, rows : {SomeRows, ListVal(<<>>)},
     key_columns : Opt(SomeKeyColumns), disable_parsing : OptBools]

UpdateRowArgs ==
    [doc_id : {DocId}, table_id_or_name : {TableId}, row_id_or_name : {RowId},
     row : {SomeRow}, disable_parsing : OptBools]

\* the arguments of a tool that takes none
NoArgs == {[none |-> JsonNone]}

ColumnId == StrVal(<<"c","1">>)
FormulaId == StrVal(<<"f","1">>)

\* initial_page={"name": "Intro"}; page_content={"type": "canvas", ...}
SomeInitialPage == DictVal(<<"n","a","m","e">> :> <<"I","n","t","r","o">>)
SomePageContent == DictVal(<<"t","y","p","e">> :> <<"c","a","n","v","a","s">>)

\* row_ids=["r1", "r2"]
SomeRowIds == ListVal(<< <<"r","1">>, <<"r","2">> >>)

\* table_types=["table"]
SomeTableTypes == ListVal(<< <<"t","a","b","l","e">> >>)

DocArgs == [doc_id : {DocId}]

\* title and icon_name are None, given, or (title) given as the empty string
UpdateDocArgs ==
    [doc_id : {DocId}, title : {JsonNone, StrVal(<<>>), StrVal(<<"P","l","a","n">>)},
     icon_name : Opt(StrVal(<<"s","t","a","r">>))]

\* the optional arguments are None, given, or given as an empty string or an
\* empty mapping
CreateDocArgs ==
    [title : {StrVal(<<"P","l","a","n">>)},
     source_doc : {JsonNone, StrVal(<<>>), DocId},
     timezone : Opt(StrVal(<<"U","T","C">>)),
     folder_id : {JsonNone, StrVal(<<>>)},
     workspace_id : Opt(StrVal(<<"w","s">>)),
     initial_page : {JsonNone, DictVal(EmptyFields), SomeInitialPage}]

ListPagesArgs == [doc_id : {DocId}, limit : Opt(SomeLimit), page_token : Opt(SomeToken)]

PageArgs == [doc_id : {DocId}, page_id_or_name : {PageId}]

CreatePageArgs ==
    [doc_id : {DocId}, name : {StrVal(<<"P","a","g","e">>)},
     subtitle : Opt(StrVal(<<>>)), icon_name : Opt(StrVal(<<"s","t","a","r">>)),
     image_url : Opt(StrVal(<<"h","t","t","p","s",":","/","/","x","/","i">>)), parent_page_id : Opt(PageId),
     page_content : Opt(SomePageContent)]

ListTablesArgs ==
    [doc_id : {DocId}, limit : Opt(SomeLimit), page_token : Opt(SomeToken),
     sort_by : Opt(StrVal(<<"n","a","m","e">>)), table_types : Opt(SomeTableTypes)]

TableArgs == [doc_id : {DocId}, table_id_or_name : {TableId}]

ColumnArgs == [doc_id : {DocId}, table_id_or_name : {TableId}, column_id_or_name : {ColumnId}]

RowArgs == [doc_id : {DocId}, table_id_or_name : {TableId}, row_id_or_name : {RowId}]

DeleteRowsArgs == [doc_id : {DocId}, table_id_or_name : {TableId}, row_ids : {SomeRowIds, ListVal(<<>>)}]

PushButtonArgs ==
    [doc_id : {DocId}, table_id_or_name : {TableId}, row_id_or_name : {RowId},
     column_id_or_name : {ColumnId}]

ListFormulasArgs ==
    [doc_id : {DocId}, limit : Opt(SomeLimit), page_token : Opt(SomeToken),
     sort_by : Opt(StrVal(<<"n","a","m","e">>))]

FormulaArgs == [doc_id : {DocId}, formula_id_or_name : {FormulaId}]

Invocation(tool, a) == [tool |-> tool, args |-> a]

\* the tool invocations of the model
Invocations ==
         {Invocation("list_docs", a) : a \in ListDocsArgs}
    \cup {Invocation("update_page", a) : a \in UpdatePageArgs}
    \cup {Invocation("begin_page_content_export", a) : a \in BeginExportArgs}
    \cup {Invocation("get_page_content_export_status", a) : a \in ExportStatusArgs}
    \cup {Invocation("list_columns", a) : a \in ListColumnsArgs}
    \cup {Invocation("list_rows", a) : a \in ListRowsArgs}
    \cup {Invocation("get_row", a) : a \in GetRowArgs}
    \cup {Invocation("upsert_rows", a) : a \in UpsertRowsArgs}
    \cup {Invocation("update_row", a) : a \in UpdateRowArgs}
    \cup {Invocation("whoami", a) : a \in NoArgs}
    \cup {Invocation("get_doc_info", a) : a \in DocArgs}
    \cup {Invocation("delete_doc", a) : a \in DocArgs}
    \cup {Invocation("update_doc", a) : a \in UpdateDocArgs}
    \cup {Invocation("create_doc", a) : a \in CreateDocArgs}
    \cup {Invocation("list_pages", a) : a \in ListPagesArgs}
    \cup {Invocation("get_page", a) : a \in PageArgs}
    \cup {Invocation("delete_page", a) : a \in PageArgs}
    \cup {Invocation("create_page", a) : a \in CreatePageArgs}
    \cup {Invocation("list_tables", a) : a \in ListTablesArgs}
    \cup {Invocation("get_table", a) : a \in TableArgs}
    \cup {Invocation("get_column", a) : a \in ColumnArgs}
    \cup {Invocation("delete_row", a) : a \in RowArgs}
    \cup {Invocation("delete_rows", a) : a \in DeleteRowsArgs}
    \cup {Invocation("push_button", a) : a \in PushButtonArgs}
    \cup {Invocation("list_formulas", a) : a \in ListFormulasArgs}
    \cup {Invocation("get_formula", a) : a \in FormulaArgs}

\* ------------------------------------------------------------------------
\* State
NoResponse == [status |-> 0, retryAfter |-> None, jsonCT |-> FALSE, text |-> <<>>]
NoError == Raised("", <<>>)

\* no tool is running: request is called directly
NoInvocation == Invocation("", [none |-> JsonNone])

\* the download of an export: not made, answered, or failed
NoDownload == [kind |-> "none", status |-> 0, text |-> <<>>, class |-> "", msg |-> <<>>]
Downloaded(status, text) ==
    [kind |-> "response", status |-> status, text |-> text, class |-> "", msg |-> <<>>]
DownloadRaised(e) ==
    [kind |-> "exception", status |-> 0, text |-> <<>>, class |-> e.class, msg |-> e.msg]

\* the tasks of the host that run tools concurrently
Tasks == 1..MaxTasks

\* a task that runs no tool: the local state of an invocation is the tool, its
\* requests, what its round trips gave and what it ended with
NoTask ==
    [invocation |-> NoInvocation, tpc |-> "ready", sent |-> <<>>,
     response |-> NoResponse, failure |-> NoError, outcome |-> NoOutcome,
     result |-> NoOutcome, download |-> NoDownload]

\* a run of a tool from its invocation to its end: the requests it sent, in
\* order, and what it ended with
NoRun == [sent |-> <<>>, result |-> NoOutcome]

VARIABLES
    environ,     \* the CODA_API_KEY environment variable, or None
    api_token,   \* the api_token argument given to __init__, or None
    client,      \* the CodaClient
    pc,          \* "start", then "idle" or "awaiting" (a request is in flight)
    calls,       \* the number of request calls made
    sent,        \* the HTTP requests issued, in order
    response,    \* the response of the last round trip, or NoResponse
    failure,     \* the exception of the last round trip, or NoError
    outcome,     \* what the last request call ended with
    decoded,     \* whether the last request call attempted a JSON decoding
    invocation,  \* the tool that runs and its arguments, or NoInvocation
    tpc,         \* the tool: "ready", "request", "download" or "done"
    result,      \* what the tool ended with
    download,    \* the download the tool made, or NoDownload
    params_in,   \* the mapping given to clean_params
    params_out,  \* the mapping clean_params returned
    loaded,      \* whether main has called load_dotenv
    tasks,       \* the tool invocations that run concurrently, by task
    server_run,  \* a run of a tool of server.py: its requests and its result
    tools_run    \* the run of the same tool of the tools package

clientVars == <<environ, api_token, client>>
toolVars == <<invocation, tpc, result, download>>
cleanVars == <<params_in, params_out>>
hostVars == <<loaded, tasks, server_run, tools_run>>

vars == <<environ, api_token, client, pc, calls, sent, response, failure, outcome, decoded,
          invocation, tpc, result, download, params_in, params_out,
          loaded, tasks, server_run, tools_run>>

Init ==
    /\ environ \in EnvValues
    /\ api_token = None
    /\ client = NoClient
    /\ pc = "start"
    /\ calls = 0
    /\ sent = <<>>
    /\ response = NoResponse
    /\ failure = NoError
    /\ outcome = NoOutcome
    /\ decoded = FALSE
    /\ invocation = NoInvocation
    /\ tpc = "ready"
    /\ result = NoOutcome
    /\ download = NoDownload
    /\ params_in = EmptyFields
    /\ params_out = EmptyFields
    /\ loaded = FALSE
    /\ tasks = [t \in Tasks |-> NoTask]
    /\ server_run = NoRun
    /\ tools_run = NoRun

\* client = CodaClient(token)
Construct(token) ==
    /\ pc = "start"
    /\ api_token' = token
    /\ client' = NewClient(environ, token)
    /\ pc' = "idle"
    /\ UNCHANGED <<environ, calls, sent, response, failure, outcome, decoded>>
    /\ UNCHANGED <<toolVars, cleanVars>>
    /\ UNCHANGED hostVars

\* HttpRequest that builds the headers from the environment of the moment
HttpRequestFreshHeaders(c) ==
    [method |-> c.method,
     url |-> client.base_url \o <<"/">> \o c.endpoint,
     headers |-> NewClient(environ, api_token).headers,
     params |-> c.params,
     json |-> c.json]

\* the HTTP request that request builds: the URL joins the base URL and the
\* endpoint, the headers are the client's
HttpRequest(c) ==
    [method |-> c.method,
     url |-> client.base_url \o <<"/">> \o c.endpoint,
     headers |-> client.headers,
     params |-> c.params,
     json |-> c.json]

\* request(...) up to the round trip: the request is issued
Issue(c) ==
    /\ pc = "idle"
    /\ calls < MaxCalls
    /\ calls' = calls + 1
    /\ sent' = Append(sent, HttpRequest(c))
    /\ response' = NoResponse
    /\ failure' = NoError
    /\ outcome' = NoOutcome
    /\ decoded' = FALSE
    /\ pc' = "awaiting"
    /\ UNCHANGED clientVars

\* request(method, endpoint), called directly
Request(method, endpoint) ==
    /\ tpc = "ready"
    /\ Issue(Call(method, endpoint, NoKwarg, NoKwarg))
    /\ UNCHANGED <<toolVars, cleanVars>>
    /\ UNCHANGED hostVars

\* a tool is invoked and runs up to the round trip of its request call
Invoke(inv) ==
    /\ tpc = "ready"
    /\ calls = 0
    /\ Issue(ToolCall(inv.tool, inv.args))
    /\ invocation' = inv
    /\ tpc' = "request"
    /\ UNCHANGED <<result, download, cleanVars>>
    /\ UNCHANGED hostVars

\* result.get(key) of a decoded object: the value, or None
DictGet(v, key) == IF key \in DOMAIN v.fields THEN v.fields[key] ELSE None

\* NeedsDownload that does not look at the status
NeedsDownloadAnyStatus(v) ==
    /\ DictGet(v, <<"d","o","w","n","l","o","a","d","L","i","n","k">>) # None
    /\ DictGet(v, <<"d","o","w","n","l","o","a","d","L","i","n","k">>) # <<>>

\* result.get("status") == "complete" and result.get("downloadLink")
NeedsDownload(v) ==
    /\ DictGet(v, <<"s","t","a","t","u","s">>) = <<"c","o","m","p","l","e","t","e">>
    /\ DictGet(v, <<"d","o","w","n","l","o","a","d","L","i","n","k">>) # None
    /\ DictGet(v, <<"d","o","w","n","l","o","a","d","L","i","n","k">>) # <<>>

\* the header values of a request that has no such header
NoHeaders == [Authorization |-> None, ContentType |-> None]

\* DownloadRequest that sends the client's headers
DownloadRequestAuthenticated(v) ==
    [method |-> "GET", url |-> v.fields[<<"d","o","w","n","l","o","a","d","L","i","n","k">>], headers |-> client.headers,
     params |-> NoKwarg, json |-> NoKwarg]

\* session.get(download_url) of a new session
DownloadRequest(v) ==
    [method |-> "GET", url |-> v.fields[<<"d","o","w","n","l","o","a","d","L","i","n","k">>], headers |-> NoHeaders,
     params |-> NoKwarg, json |-> NoKwarg]

\* type(v).__name__
TypeName(v) ==
    CASE v.type = "list" -> <<"l","i","s","t">>
      [] v.type = "str" -> <<"s","t","r">>
      [] v.type = "int" -> <<"i","n","t">>
      [] v.type = "None" -> <<"N","o","n","e","T","y","p","e">>
      [] OTHER -> <<"d","i","c","t">>

\* the AttributeError of result.get on a value that is not a dict
NoGetError(v) ==
    Raise("AttributeError",
          <<"'">> \o TypeName(v) \o <<"'"," ","o","b","j","e","c","t"," ","h","a","s"," ","n","o"," ","a","t","t","r","i","b","u","t","e"," ","'","g","e","t","'">>)

\* Continue that catches the error of request and returns an empty result
ContinueSwallow(out) ==
    IF tpc # "request"
    THEN UNCHANGED <<sent, tpc, result>>
    ELSE IF out.kind = "raise"
    THEN tpc' = "done" /\ result' = Return(EmptyDict) /\ UNCHANGED sent
    ELSE IF invocation.tool # "get_page_content_export_status"
    THEN tpc' = "done" /\ result' = out /\ UNCHANGED sent
    ELSE IF ~IsDict(out.value)
    THEN tpc' = "done" /\ result' = NoGetError(out.value) /\ UNCHANGED sent
    ELSE IF NeedsDownload(out.value)
    THEN tpc' = "download" /\ result' = NoOutcome
         /\ sent' = Append(sent, DownloadRequest(out.value))
    ELSE tpc' = "done" /\ result' = out /\ UNCHANGED sent

\* the code of the running tool after `await client.request(...)` ended with
\* out: every tool returns or raises what request did, but
\* get_page_content_export_status starts the download of a complete export
Continue(out) ==
    IF tpc # "request"
    THEN UNCHANGED <<sent, tpc, result>>
    ELSE IF out.kind = "raise" \/ invocation.tool # "get_page_content_export_status"
    THEN tpc' = "done" /\ result' = out /\ UNCHANGED sent
    ELSE IF ~IsDict(out.value)
    THEN tpc' = "done" /\ result' = NoGetError(out.value) /\ UNCHANGED sent
    ELSE IF NeedsDownload(out.value)
    THEN tpc' = "download" /\ result' = NoOutcome
         /\ sent' = Append(sent, DownloadRequest(out.value))
    ELSE tpc' = "done" /\ result' = out /\ UNCHANGED sent

\* Receive that issues the request again after a 404
ReceiveRetry404(r) ==
    /\ pc = "awaiting"
    /\ response' = r
    /\ IF r.status = 404
       THEN /\ sent' = Append(sent, sent[Len(sent)])
            /\ UNCHANGED <<pc, outcome, decoded, tpc, result>>
       ELSE /\ outcome' = Finish(TryBody(r).out)
            /\ decoded' = TryBody(r).decoded
            /\ pc' = "idle"
            /\ Continue(Finish(TryBody(r).out))
    /\ UNCHANGED <<environ, api_token, client, calls, failure>>
    /\ UNCHANGED <<invocation, download, cleanVars>>
    /\ UNCHANGED hostVars

\* the round trip gives response r: request classifies it and finishes, and
\* the tool that called it goes on
Receive(r) ==
    /\ pc = "awaiting"
    /\ response' = r
    /\ outcome' = Finish(TryBody(r).out)
    /\ decoded' = TryBody(r).decoded
    /\ pc' = "idle"
    /\ Continue(Finish(TryBody(r).out))
    /\ UNCHANGED <<environ, api_token, client, calls, failure>>
    /\ UNCHANGED <<invocation, download, cleanVars>>
    /\ UNCHANGED hostVars

\* the round trip raises e: the except clauses of request handle it, and the
\* tool that called it goes on
Fail(e) ==
    /\ pc = "awaiting"
    /\ failure' = e
    /\ outcome' = Handlers(e)
    /\ pc' = "idle"
    /\ Continue(Handlers(e))
    /\ UNCHANGED <<environ, api_token, client, calls, response, decoded>>
    /\ UNCHANGED <<invocation, download, cleanVars>>
    /\ UNCHANGED hostVars

\* WithContent that returns only the downloaded text
WithContentOnly(v, text) == DictVal(<<"c","o","n","t","e","n","t">> :> text)

\* result["content"] = text
WithContent(v, text) == DictVal((<<"c","o","n","t","e","n","t">> :> text) @@ v.fields)

\* the download is answered with d: the body text becomes the `content` of
\* the result, whatever the status is
DownloadReceive(d) ==
    /\ tpc = "download"
    /\ download' = Downloaded(d.status, d.text)
    /\ result' = Return(WithContent(outcome.value, d.text))
    /\ tpc' = "done"
    /\ UNCHANGED <<clientVars, pc, calls, sent, response, failure, outcome, decoded>>
    /\ UNCHANGED <<invocation, cleanVars>>
    /\ UNCHANGED hostVars

\* the download raises e, which leaves the tool as it is
DownloadFail(e) ==
    /\ tpc = "download"
    /\ download' = DownloadRaised(e)
    /\ result' = Raise(e.class, e.msg)
    /\ tpc' = "done"
    /\ UNCHANGED <<clientVars, pc, calls, sent, response, failure, outcome, decoded>>
    /\ UNCHANGED <<invocation, cleanVars>>
    /\ UNCHANGED hostVars

\* clean_params(m) is called, once in a behaviour
CleanParams(m) ==
    /\ params_in = EmptyFields
    /\ params_in' = m
    /\ params_out' = clean_params(m)
    /\ UNCHANGED <<clientVars, pc, calls, sent, response, failure, outcome, decoded>>
    /\ UNCHANGED toolVars
    /\ UNCHANGED hostVars

Next ==
    \/ \E token \in ArgTokens : Construct(token)
    \/ \E method \in Methods, endpoint \in Endpoints : Request(method, endpoint)
    \/ \E r \in Responses : Receive(r)
    \/ \E e \in TransportErrors : Fail(e)

Spec == Init /\ [][Next]_vars

\* ------------------------------------------------------------------------
\* The tools, one invocation in a behaviour: the module-level client is
\* constructed without an argument, a tool is invoked, its round trips end
\* ------------------------------------------------------------------------

PayloadComplete == <<"{","\"","i","d","\"",":","\"","r","e","q","1","\"",",","\"","s","t","a","t","u","s","\"",":","\"","c","o","m","p","l","e","t","e","\"",",","\"","d","o","w","n","l","o","a","d","L","i","n","k","\"",":","\"","h","t","t","p","s",":","/","/","x","/","y","\"","}">>
PayloadNoLink == <<"{","\"","i","d","\"",":","\"","r","e","q","1","\"",",","\"","s","t","a","t","u","s","\"",":","\"","c","o","m","p","l","e","t","e","\"","}">>
PayloadEmptyLink == <<"{","\"","i","d","\"",":","\"","r","e","q","1","\"",",","\"","s","t","a","t","u","s","\"",":","\"","c","o","m","p","l","e","t","e","\"",",","\"","d","o","w","n","l","o","a","d","L","i","n","k","\"",":","\"","\"","}">>
PayloadInProgress == <<"{","\"","i","d","\"",":","\"","r","e","q","1","\"",",","\"","s","t","a","t","u","s","\"",":","\"","i","n","P","r","o","g","r","e","s","s","\"",",","\"","d","o","w","n","l","o","a","d","L","i","n","k","\"",":","\"","h","t","t","p","s",":","/","/","x","/","y","\"","}">>
PayloadFailed == <<"{","\"","s","t","a","t","u","s","\"",":","\"","f","a","i","l","e","d","\"",",","\"","e","r","r","o","r","\"",":","\"","t","i","m","e","o","u","t","\"","}">>

\* the responses to the request of a tool
ToolResponses ==
    [status : {200}, retryAfter : {None}, jsonCT : {TRUE},
     text : {PayloadComplete, PayloadNoLink, PayloadEmptyLink, PayloadInProgress,
             PayloadFailed, BodyList, BodyOops}]
    \cup {[status |-> 204, retryAfter |-> None, jsonCT |-> TRUE, text |-> <<>>],
          [status |-> 404, retryAfter |-> None, jsonCT |-> TRUE, text |-> BodyMessage],
          [status |-> 429, retryAfter |-> None, jsonCT |-> TRUE, text |-> <<>>]}

\* the responses to the download of an export
DownloadResponses ==
    [status : {200, 403}, text : {<<"<","p",">","h","i","<","/","p",">">>, <<"A","c","c","e","s","s","D","e","n","i","e","d">>}]

ToolNext ==
    \/ Construct(None)
    \/ \E inv \in Invocations : Invoke(inv)
    \/ \E r \in ToolResponses : Receive(r)
    \/ \E e \in TransportErrors : Fail(e)
    \/ \E d \in DownloadResponses : DownloadReceive(d)
    \/ \E e \in TransportErrors : DownloadFail(e)

\* the variable is unset, or set to a key
ToolInit == Init /\ environ # <<>>

ToolSpec == ToolInit /\ [][ToolNext]_vars

\* ------------------------------------------------------------------------
\* A tool of server.py as a function: the run of an invocation for what its
\* round trips give
\* ------------------------------------------------------------------------

\* what request ends with for the response, or else the exception, of its
\* round trip
RequestOutcome(r, e) ==
    IF r # NoResponse THEN Finish(TryBody(r).out) ELSE Handlers(e)

\* what the download step of get_page_content_export_status ends with
DownloadOutcome(v, d) ==
    IF d.kind = "response" THEN Return(WithContent(v, d.text)) ELSE Raise(d.class, d.msg)

\* what a tool does after its request first ended with out: the export status
\* tool reads the result and may download, every other tool ends with out
ServerEnd(inv, first, out, d) ==
    IF out.kind = "raise" \/ inv.tool # "get_page_content_export_status"
    THEN [sent |-> <<first>>, result |-> out]
    ELSE IF ~IsDict(out.value)
    THEN [sent |-> <<first>>, result |-> NoGetError(out.value)]
    ELSE IF NeedsDownload(out.value)
    THEN [sent |-> <<first, DownloadRequest(out.value)>>,
          result |-> DownloadOutcome(out.value, d)]
    ELSE [sent |-> <<first>>, result |-> out]

\* the requests a tool sends and what it ends with, for the response r or
\* the exception e of its request and the answer d of its download
ServerRun(inv, r, e, d) ==
    ServerEnd(inv, HttpRequest(ToolCall(inv.tool, inv.args)), RequestOutcome(r, e), d)

\* ------------------------------------------------------------------------
\* Concurrent invocations: the host runs each tool invocation as a task of
\* its own; the tasks share the module-level client, and everything else an
\* invocation uses is local to it (its arguments, its session, its response,
\* its result)
\* ------------------------------------------------------------------------

\* the code of a tool after `await client.request(...)` ended with out, on
\* the local state of its task
TaskContinue(task, out) ==
    IF out.kind = "raise" \/ task.invocation.tool # "get_page_content_export_status"
    THEN [task EXCEPT !.outcome = out, !.tpc = "done", !.result = out]
    ELSE IF ~IsDict(out.value)
    THEN [task EXCEPT !.outcome = out, !.tpc = "done", !.result = NoGetError(out.value)]
    ELSE IF NeedsDownload(out.value)
    THEN [task EXCEPT !.outcome = out, !.tpc = "download",
                      !.sent = Append(@, DownloadRequest(out.value))]
    ELSE [task EXCEPT !.outcome = out, !.tpc = "done", !.result = out]

\* task t starts a tool, which runs up to the round trip of its request call
TaskInvoke(t, inv) ==
    /\ pc = "idle"
    /\ tasks[t].tpc = "ready"
    /\ tasks' = [tasks EXCEPT ![t] =
                    [@ EXCEPT !.invocation = inv, !.tpc = "request",
                              !.sent = <<HttpRequest(ToolCall(inv.tool, inv.args))>>]]
    /\ UNCHANGED <<clientVars, pc, calls, sent, response, failure, outcome, decoded>>
    /\ UNCHANGED <<toolVars, cleanVars, loaded, server_run, tools_run>>

\* TaskReceive that classifies the response the client saw last, whichever
\* task it was for
TaskReceiveShared(t, r) ==
    /\ tasks[t].tpc = "request"
    /\ LET others == {u \in Tasks \ {t} : tasks[u].response # NoResponse}
           last == IF others = {} THEN r ELSE tasks[CHOOSE u \in others : TRUE].response
       IN  tasks' = [tasks EXCEPT ![t] =
                        TaskContinue([@ EXCEPT !.response = r], Finish(TryBody(last).out))]
    /\ UNCHANGED <<clientVars, pc, calls, sent, response, failure, outcome, decoded>>
    /\ UNCHANGED <<toolVars, cleanVars, loaded, server_run, tools_run>>

\* the round trip of task t gives response r: request classifies it and the
\* tool goes on
TaskReceive(t, r) ==
    /\ tasks[t].tpc = "request"
    /\ tasks' = [tasks EXCEPT ![t] =
                    TaskContinue([@ EXCEPT !.response = r], Finish(TryBody(r).out))]
    /\ UNCHANGED <<clientVars, pc, calls, sent, response, failure, outcome, decoded>>
    /\ UNCHANGED <<toolVars, cleanVars, loaded, server_run, tools_run>>

\* the round trip of task t raises e
TaskFail(t, e) ==
    /\ tasks[t].tpc = "request"
    /\ tasks' = [tasks EXCEPT ![t] = TaskContinue([@ EXCEPT !.failure = e], Handlers(e))]
    /\ UNCHANGED <<clientVars, pc, calls, sent, response, failure, outcome, decoded>>
    /\ UNCHANGED <<toolVars, cleanVars, loaded, server_run, tools_run>>

\* the download of task t is answered with d
TaskDownloadReceive(t, d) ==
    /\ tasks[t].tpc = "download"
    /\ tasks' = [tasks EXCEPT ![t] =
                    [@ EXCEPT !.download = Downloaded(d.status, d.text), !.tpc = "done",
                              !.result = Return(WithContent(tasks[t].outcome.value, d.text))]]
    /\ UNCHANGED <<clientVars, pc, calls, sent, response, failure, outcome, decoded>>
    /\ UNCHANGED <<toolVars, cleanVars, loaded, server_run, tools_run>>

\* the download of task t raises e
TaskDownloadFail(t, e) ==
    /\ tasks[t].tpc = "download"
    /\ tasks' = [tasks EXCEPT ![t] =
                    [@ EXCEPT !.download = DownloadRaised(e), !.tpc = "done",
                              !.result = Raise(e.class, e.msg)]]
    /\ UNCHANGED <<clientVars, pc, calls, sent, response, failure, outcome, decoded>>
    /\ UNCHANGED <<toolVars, cleanVars, loaded, server_run, tools_run>>

\* the invocations that run concurrently
TaskInvocations ==
    {Invocation("get_page_content_export_status", a) : a \in ExportStatusArgs}
    \cup {Invocation("whoami", a) : a \in NoArgs}
    \cup {Invocation("get_row", a) : a \in {x \in GetRowArgs : x.value_format = JsonNone /\ x.use_column_names # JsonNone}}

\* the responses to their requests, and to their downloads
TaskResponses ==
    {[status |-> 200, retryAfter |-> None, jsonCT |-> TRUE, text |-> PayloadComplete],
     [status |-> 200, retryAfter |-> None, jsonCT |-> TRUE, text |-> PayloadFailed],
     [status |-> 404, retryAfter |-> None, jsonCT |-> TRUE, text |-> BodyMessage]}

TaskErrors == {e \in TransportErrors : e.class = "ClientConnectorError"}

TaskNext ==
    \/ Construct(None)
    \/ \E t \in Tasks, inv \in TaskInvocations : TaskInvoke(t, inv)
    \/ \E t \in Tasks, r \in TaskResponses : TaskReceive(t, r)
    \/ \E t \in Tasks, e \in TaskErrors : TaskFail(t, e)
    \/ \E t \in Tasks, d \in DownloadResponses : TaskDownloadReceive(t, d)
    \/ \E t \in Tasks, e \in TaskErrors : TaskDownloadFail(t, e)

TaskSpec == ToolInit /\ [][TaskNext]_vars

\* ------------------------------------------------------------------------
\* The server process: importing the module constructs the client, then main
\* calls load_dotenv() and mcp.run(), which serves the invocations of the
\* host one after another
\* ------------------------------------------------------------------------

\* the CODA_API_KEY entry of the .env file: none, "filekey"
DotenvValues == { None, <<"f","i","l","e","k","e","y">> }

\* LoadDotenv that constructs the client again from the environment it made
LoadDotenvRefresh(v) ==
    /\ pc = "idle"
    /\ ~loaded
    /\ loaded' = TRUE
    /\ environ' = IF environ = None THEN v ELSE environ
    /\ client' = NewClient(environ', api_token)
    /\ UNCHANGED <<api_token, pc, calls, sent, response, failure, outcome, decoded>>
    /\ UNCHANGED <<toolVars, cleanVars, tasks, server_run, tools_run>>

\* main: load_dotenv() gives the environment the entry of the file, unless
\* the variable is set already
LoadDotenv(v) ==
    /\ pc = "idle"
    /\ ~loaded
    /\ loaded' = TRUE
    /\ environ' = IF environ = None THEN v ELSE environ
    /\ UNCHANGED <<api_token, client, pc, calls, sent, response, failure, outcome, decoded>>
    /\ UNCHANGED <<toolVars, cleanVars, tasks, server_run, tools_run>>

\* mcp.run(): the host invokes a tool, which runs up to the round trip of its
\* request call
Serve(inv) ==
    /\ loaded
    /\ tpc \in {"ready", "done"}
    /\ Issue(ToolCall(inv.tool, inv.args))
    /\ invocation' = inv
    /\ tpc' = "request"
    /\ result' = NoOutcome
    /\ download' = NoDownload
    /\ UNCHANGED <<cleanVars, hostVars>>

\* the invocations the host makes
ServeInvocations ==
    {Invocation("get_page_content_export_status", a) : a \in ExportStatusArgs}
    \cup {Invocation("whoami", a) : a \in NoArgs}
    \cup {Invocation("update_row", a) : a \in {x \in UpdateRowArgs : x.disable_parsing = JsonNone}}

ServeNext ==
    \/ Construct(None)
    \/ \E v \in DotenvValues : LoadDotenv(v)
    \/ \E inv \in ServeInvocations : Serve(inv)
    \/ \E r \in TaskResponses : Receive(r)
    \/ \E e \in TaskErrors : Fail(e)
    \/ \E d \in DownloadResponses : DownloadReceive(d)
    \/ \E e \in TaskErrors : DownloadFail(e)

ServeSpec == Init /\ [][ServeNext]_vars

\* ------------------------------------------------------------------------
\* The tools for identifiers that are ids or names: a name may hold any
\* character, a "/" too
\* ------------------------------------------------------------------------

\* doc ids: "doc1", "doc1/pages"
DocIds == { DocId, StrVal(<<"d","o","c","1","/","p","a","g","e","s">>) }

\* page, table, row and column ids or names
PageNames == { PageId, StrVal(<<"Q","1","/","Q","2">>) }
TableNames == { TableId, StrVal(<<"I","n","/","O","u","t">>) }
RowNames == { RowId, StrVal(<<"a","/","c","o","l","u","m","n","s">>) }
ColumnNames == { ColumnId, StrVal(<<"x","/","y">>) }

\* every tool, with its identifiers from these and its optional arguments
\* left out
NamedInvocations ==
         {Invocation("whoami", a) : a \in
            [none : {JsonNone}]}
    \cup {Invocation("get_doc_info", a) : a \in
            [doc_id : DocIds]}
    \cup {Invocation("delete_doc", a) : a \in
            [doc_id : DocIds]}
    \cup {Invocation("update_doc", a) : a \in
            [doc_id : DocIds, title : {StrVal(<<"P","l","a","n">>)}, icon_name : {JsonNone}]}
    \cup {Invocation("list_docs", a) : a \in
            [is_owner : {BoolVal(TRUE)}, is_published : {BoolVal(FALSE)}, query : {StrVal(<<"x">>)}, source_doc : {JsonNone}, is_starred : {JsonNone}, in_gallery : {JsonNone}, workspace_id : {JsonNone}, folder_id : {JsonNone}, limit : {JsonNone}, page_token : {JsonNone}]}
    \cup {Invocation("create_doc", a) : a \in
            [title : {StrVal(<<"P","l","a","n">>)}, source_doc : {JsonNone}, timezone : {JsonNone}, folder_id : {JsonNone}, workspace_id : {JsonNone}, initial_page : {JsonNone}]}
    \cup {Invocation("list_pages", a) : a \in
            [doc_id : DocIds, limit : {JsonNone}, page_token : {JsonNone}]}
    \cup {Invocation("get_page", a) : a \in
            [doc_id : DocIds, page_id_or_name : PageNames]}
    \cup {Invocation("update_page", a) : a \in
            [doc_id : DocIds, page_id_or_name : PageNames, name : {StrVal(<<"P","a","g","e">>)}, subtitle : {JsonNone}, icon_name : {JsonNone}, image_url : {JsonNone}, is_hidden : {JsonNone}, content_update : {JsonNone}]}
    \cup {Invocation("delete_page", a) : a \in
            [doc_id : DocIds, page_id_or_name : PageNames]}
    \cup {Invocation("begin_page_content_export", a) : a \in
            [doc_id : DocIds, page_id_or_name : PageNames, output_format : {Omitted}]}
    \cup {Invocation("get_page_content_export_status", a) : a \in
            [doc_id : DocIds, page_id_or_name : PageNames, request_id : {RequestId}]}
    \cup {Invocation("create_page", a) : a \in
            [doc_id : DocIds, name : {StrVal(<<"P","a","g","e">>)}, subtitle : {JsonNone}, icon_name : {JsonNone}, image_url : {JsonNone}, parent_page_id : {JsonNone}, page_content : {JsonNone}]}
    \cup {Invocation("list_tables", a) : a \in
            [doc_id : DocIds, limit : {JsonNone}, page_token : {JsonNone}, sort_by : {JsonNone}, table_types : {JsonNone}]}
    \cup {Invocation("get_table", a) : a \in
            [doc_id : DocIds, table_id_or_name : TableNames]}
    \cup {Invocation("list_columns", a) : a \in
            [doc_id : DocIds, table_id_or_name : TableNames, limit : {JsonNone}, page_token : {JsonNone}, visible_only : {JsonNone}]}
    \cup {Invocation("get_column", a) : a \in
            [doc_id : DocIds, table_id_or_name : TableNames, column_id_or_name : ColumnNames]}
    \cup {Invocation("list_rows", a) : a \in
            [doc_id : DocIds, table_id_or_name : TableNames, query : {JsonNone}, sort_by : {JsonNone}, use_column_names : {JsonNone}, value_format : {JsonNone}, visible_only : {JsonNone}, limit : {JsonNone}, page_token : {JsonNone}, sync_token : {JsonNone}]}
    \cup {Invocation("get_row", a) : a \in
            [doc_id : DocIds, table_id_or_name : TableNames, row_id_or_name : RowNames, use_column_names : {JsonNone}, value_format : {JsonNone}]}
    \cup {Invocation("upsert_rows", a) : a \in
            [doc_id : DocIds, table_id_or_name : TableNames, rows : {SomeRows}, key_columns : {JsonNone}, disable_parsing : {JsonNone}]}
    \cup {Invocation("update_row", a) : a \in
            [doc_id : DocIds, table_id_or_name : TableNames, row_id_or_name : RowNames, row : {SomeRow}, disable_parsing : {JsonNone}]}
    \cup {Invocation("delete_row", a) : a \in
            [doc_id : DocIds, table_id_or_name : TableNames, row_id_or_name : RowNames]}
    \cup {Invocation("delete_rows", a) : a \in
            [doc_id : DocIds, table_id_or_name : TableNames, row_ids : {SomeRowIds}]}
    \cup {Invocation("push_button", a) : a \in
            [doc_id : DocIds, table_id_or_name : TableNames, row_id_or_name : RowNames, column_id_or_name : ColumnNames]}
    \cup {Invocation("list_formulas", a) : a \in
            [doc_id : DocIds, limit : {JsonNone}, page_token : {JsonNone}, sort_by : {JsonNone}]}
    \cup {Invocation("get_formula", a) : a \in
            [doc_id : DocIds, formula_id_or_name : {FormulaId}]}

NamedNext ==
    \/ Construct(None)
    \/ \E inv \in NamedInvocations : Invoke(inv)
    \/ \E r \in TaskResponses : Receive(r)
    \/ \E e \in TaskErrors : Fail(e)
    \/ \E d \in DownloadResponses : DownloadReceive(d)
    \/ \E e \in TaskErrors : DownloadFail(e)

NamedSpec == ToolInit /\ [][NamedNext]_vars

\* ------------------------------------------------------------------------
\* The tools of the tools package (tools/docs.py, tools/pages.py,
\* tools/rows.py): the same tools with the client as their first argument.
\* They import clean_params and CodaClient from the client module of the
\* package, which is the Parameter Normalizer and the HTTP Request Adapter of
\* the specification
\* ------------------------------------------------------------------------

\* the Parameter Normalizer: the keys of the present values, the booleans as
\* the strings "true" and "false", every other value untouched
client_clean_params(params) ==
    [k \in {key \in DOMAIN params : params[key] # JsonNone} |->
        IF params[k] = BoolVal(TRUE) THEN StrVal(<<"t","r","u","e">>)
        ELSE IF params[k] = BoolVal(FALSE) THEN StrVal(<<"f","a","l","s","e">>)
        ELSE params[k]]

\* the HTTP Request Adapter: the one adapter every tool delegates to; the
\* request it builds for a call, and what it ends with for a round trip
client_http(c) == HttpRequest(c)
client_request(r, e) == RequestOutcome(r, e)

\* whoami of tools/docs.py
docs_whoami(a) == Call("GET", <<"w","h","o","a","m","i">>, NoKwarg, NoKwarg)

\* get_doc_info of tools/docs.py
docs_get_doc_info(a) ==
    Call("GET", <<"d","o","c","s","/">> \o Format(a.doc_id),
         NoKwarg, NoKwarg)

\* delete_doc of tools/docs.py
docs_delete_doc(a) ==
    Call("DELETE", <<"d","o","c","s","/">> \o Format(a.doc_id),
         NoKwarg, NoKwarg)

\* update_doc of tools/docs.py
docs_update_doc(a) ==
    LET data == (<<"t","i","t","l","e">> :> a.title) @@ (<<"i","c","o","n","N","a","m","e">> :> a.icon_name)
    IN  Call("PATCH", <<"d","o","c","s","/">> \o Format(a.doc_id), NoKwarg, Kwarg(client_clean_params(data)))

\* list_docs: the params dict of tools/docs.py
docs_list_docs_params(a) ==
       (<<"i","s","O","w","n","e","r">> :> StrLower(a.is_owner))
    @@ (<<"i","s","P","u","b","l","i","s","h","e","d">> :> StrLower(a.is_published))
    @@ (<<"q","u","e","r","y">> :> a.query)
    @@ (<<"s","o","u","r","c","e","D","o","c">> :> a.source_doc)
    @@ (<<"i","s","S","t","a","r","r","e","d">> :> IF a.is_starred # JsonNone THEN StrLower(a.is_starred) ELSE JsonNone)
    @@ (<<"i","n","G","a","l","l","e","r","y">> :> IF a.in_gallery # JsonNone THEN StrLower(a.in_gallery) ELSE JsonNone)
    @@ (<<"w","o","r","k","s","p","a","c","e","I","d">> :> a.workspace_id)
    @@ (<<"f","o","l","d","e","r","I","d">> :> a.folder_id)
    @@ (<<"l","i","m","i","t">> :> a.limit)
    @@ (<<"p","a","g","e","T","o","k","e","n">> :> a.page_token)

\* list_docs of tools/docs.py
docs_list_docs(a) == Call("GET", <<"d","o","c","s">>, Kwarg(client_clean_params(docs_list_docs_params(a))), NoKwarg)

\* create_doc of tools/docs.py
docs_create_doc(a) ==
    LET request_data ==
            (<<"t","i","t","l","e">> :> a.title)
         @@ TruthyEntry(<<"s","o","u","r","c","e","D","o","c">>, a.source_doc)
         @@ TruthyEntry(<<"t","i","m","e","z","o","n","e">>, a.timezone)
         @@ TruthyEntry(<<"f","o","l","d","e","r","I","d">>, a.folder_id)
         @@ TruthyEntry(<<"w","o","r","k","s","p","a","c","e","I","d">>, a.workspace_id)
         @@ TruthyEntry(<<"i","n","i","t","i","a","l","P","a","g","e">>, a.initial_page)
    IN  Call("POST", <<"d","o","c","s">>, NoKwarg, Kwarg(request_data))

\* list_pages of tools/pages.py
pages_list_pages(a) ==
    LET params == (<<"l","i","m","i","t">> :> a.limit) @@ (<<"p","a","g","e","T","o","k","e","n">> :> a.page_token)
    IN  Call("GET", <<"d","o","c","s","/">> \o Format(a.doc_id) \o <<"/","p","a","g","e","s">>,
             Kwarg(client_clean_params(params)), NoKwarg)

\* get_page of tools/pages.py
pages_get_page(a) ==
    Call("GET", <<"d","o","c","s","/">> \o Format(a.doc_id) \o <<"/","p","a","g","e","s","/">> \o Format(a.page_id_or_name),
         NoKwarg, NoKwarg)

\* update_page of tools/pages.py
pages_update_page(a) ==
    LET data ==
            Entry(<<"n","a","m","e">>, a.name)
         @@ Entry(<<"s","u","b","t","i","t","l","e">>, a.subtitle)
         @@ Entry(<<"i","c","o","n","N","a","m","e">>, a.icon_name)
         @@ Entry(<<"i","m","a","g","e","U","r","l">>, a.image_url)
         @@ Entry(<<"i","s","H","i","d","d","e","n">>, a.is_hidden)
         @@ Entry(<<"c","o","n","t","e","n","t","U","p","d","a","t","e">>, a.content_update)
    IN  Call("PUT", <<"d","o","c","s","/">> \o Format(a.doc_id) \o <<"/","p","a","g","e","s","/">> \o Format(a.page_id_or_name),
             NoKwarg, Kwarg(data))

\* delete_page of tools/pages.py
pages_delete_page(a) ==
    Call("DELETE", <<"d","o","c","s","/">> \o Format(a.doc_id) \o <<"/","p","a","g","e","s","/">> \o Format(a.page_id_or_name),
         NoKwarg, NoKwarg)

\* begin_page_content_export of tools/pages.py
pages_begin_page_content_export(a) ==
    LET output_format == Default(a.output_format, StrVal(<<"h","t","m","l">>))
        data == (<<"o","u","t","p","u","t","F","o","r","m","a","t">> :> output_format)
    IN  Call("POST",
             <<"d","o","c","s","/">> \o Format(a.doc_id) \o <<"/","p","a","g","e","s","/">> \o Format(a.page_id_or_name)
                 \o <<"/","e","x","p","o","r","t">>,
             NoKwarg, Kwarg(data))

\* get_page_content_export_status of tools/pages.py
pages_get_page_content_export_status(a) ==
    Call("GET",
         <<"d","o","c","s","/">> \o Format(a.doc_id) \o <<"/","p","a","g","e","s","/">> \o Format(a.page_id_or_name)
             \o <<"/","e","x","p","o","r","t","/">> \o Format(a.request_id),
         NoKwarg, NoKwarg)

\* create_page of tools/pages.py
pages_create_page(a) ==
    LET data ==
            (<<"n","a","m","e">> :> a.name)
         @@ Entry(<<"s","u","b","t","i","t","l","e">>, a.subtitle)
         @@ Entry(<<"i","c","o","n","N","a","m","e">>, a.icon_name)
         @@ Entry(<<"i","m","a","g","e","U","r","l">>, a.image_url)
         @@ Entry(<<"p","a","r","e","n","t","P","a","g","e","I","d">>, a.parent_page_id)
         @@ Entry(<<"p","a","g","e","C","o","n","t","e","n","t">>, a.page_content)
    IN  Call("POST", <<"d","o","c","s","/">> \o Format(a.doc_id) \o <<"/","p","a","g","e","s">>,
             NoKwarg, Kwarg(data))

\* list_rows of tools/rows.py
rows_list_rows(a) ==
    LET params ==
            (<<"q","u","e","r","y">> :> a.query)
         @@ (<<"s","o","r","t","B","y">> :> a.sort_by)
         @@ (<<"u","s","e","C","o","l","u","m","n","N","a","m","e","s">> :> a.use_column_names)
         @@ (<<"v","a","l","u","e","F","o","r","m","a","t">> :> a.value_format)
         @@ (<<"v","i","s","i","b","l","e","O","n","l","y">> :> a.visible_only)
         @@ (<<"l","i","m","i","t">> :> a.limit)
         @@ (<<"p","a","g","e","T","o","k","e","n">> :> a.page_token)
         @@ (<<"s","y","n","c","T","o","k","e","n">> :> a.sync_token)
    IN  Call("GET",
             <<"d","o","c","s","/">> \o Format(a.doc_id) \o <<"/","t","a","b","l","e","s","/">> \o Format(a.table_id_or_name)
                 \o <<"/","r","o","w","s">>,
             Kwarg(client_clean_params(params)), NoKwarg)

\* get_row of tools/rows.py
rows_get_row(a) ==
    LET params ==
            (<<"u","s","e","C","o","l","u","m","n","N","a","m","e","s">> :> a.use_column_names)
         @@ (<<"v","a","l","u","e","F","o","r","m","a","t">> :> a.value_format)
    IN  Call("GET",
             <<"d","o","c","s","/">> \o Format(a.doc_id) \o <<"/","t","a","b","l","e","s","/">> \o Format(a.table_id_or_name)
                 \o <<"/","r","o","w","s","/">> \o Format(a.row_id_or_name),
             Kwarg(client_clean_params(params)), NoKwarg)

\* upsert_rows: the data dict of tools/rows.py
rows_upsert_rows_data(a) ==
       (<<"r","o","w","s">> :> a.rows)
    @@ (<<"k","e","y","C","o","l","u","m","n","s">> :> a.key_columns)
    @@ (<<"d","i","s","a","b","l","e","P","a","r","s","i","n","g">> :> a.disable_parsing)

\* upsert_rows of tools/rows.py that does not clean its data
rows_upsert_rows_raw(a) ==
    Call("POST",
         <<"d","o","c","s","/">> \o Format(a.doc_id) \o <<"/","t","a","b","l","e","s","/">> \o Format(a.table_id_or_name)
             \o <<"/","r","o","w","s">>,
         NoKwarg, Kwarg(rows_upsert_rows_data(a)))

\* upsert_rows of tools/rows.py
rows_upsert_rows(a) ==
    Call("POST",
         <<"d","o","c","s","/">> \o Format(a.doc_id) \o <<"/","t","a","b","l","e","s","/">> \o Format(a.table_id_or_name)
             \o <<"/","r","o","w","s">>,
         NoKwarg, Kwarg(client_clean_params(rows_upsert_rows_data(a))))

\* update_row of tools/rows.py
rows_update_row(a) ==
    LET data ==
            (<<"r","o","w">> :> a.row)
         @@ (<<"d","i","s","a","b","l","e","P","a","r","s","i","n","g">> :> a.disable_parsing)
    IN  Call("PUT",
             <<"d","o","c","s","/">> \o Format(a.doc_id) \o <<"/","t","a","b","l","e","s","/">> \o Format(a.table_id_or_name)
                 \o <<"/","r","o","w","s","/">> \o Format(a.row_id_or_name),
             NoKwarg, Kwarg(client_clean_params(data)))

\* delete_row of tools/rows.py
rows_delete_row(a) ==
    Call("DELETE", <<"d","o","c","s","/">> \o Format(a.doc_id) \o <<"/","t","a","b","l","e","s","/">> \o Format(a.table_id_or_name) \o <<"/","r","o","w","s","/">> \o Format(a.row_id_or_name),
         NoKwarg, NoKwarg)

\* delete_rows of tools/rows.py
rows_delete_rows(a) ==
    LET data == (<<"r","o","w","I","d","s">> :> a.row_ids)
    IN  Call("DELETE", <<"d","o","c","s","/">> \o Format(a.doc_id) \o <<"/","t","a","b","l","e","s","/">> \o Format(a.table_id_or_name) \o <<"/","r","o","w","s">>,
             NoKwarg, Kwarg(data))

\* the request a tool of the package makes first
ToolsCall(tool, a) ==
    CASE tool = "whoami" -> docs_whoami(a)
      [] tool = "get_doc_info" -> docs_get_doc_info(a)
      [] tool = "delete_doc" -> docs_delete_doc(a)
      [] tool = "update_doc" -> docs_update_doc(a)
      [] tool = "list_docs" -> docs_list_docs(a)
      [] tool = "create_doc" -> docs_create_doc(a)
      [] tool = "list_pages" -> pages_list_pages(a)
      [] tool = "get_page" -> pages_get_page(a)
      [] tool = "update_page" -> pages_update_page(a)
      [] tool = "delete_page" -> pages_delete_page(a)
      [] tool = "begin_page_content_export" -> pages_begin_page_content_export(a)
      [] tool = "get_page_content_export_status" -> pages_get_page_content_export_status(a)
      [] tool = "create_page" -> pages_create_page(a)
      [] tool = "list_rows" -> rows_list_rows(a)
      [] tool = "get_row" -> rows_get_row(a)
      [] tool = "upsert_rows" -> rows_upsert_rows(a)
      [] tool = "update_row" -> rows_update_row(a)
      [] tool = "delete_row" -> rows_delete_row(a)
      [] tool = "delete_rows" -> rows_delete_rows(a)

\* get_page_content_export_status of tools/pages.py after its request
\* returned res: the download of a complete export
pages_download(first, res, d) ==
    IF ~IsDict(res)
    THEN [sent |-> <<first>>, result |-> NoGetError(res)]
    ELSE IF /\ DictGet(res, <<"s","t","a","t","u","s">>) = <<"c","o","m","p","l","e","t","e">>
            /\ DictGet(res, <<"d","o","w","n","l","o","a","d","L","i","n","k">>) \notin {None, <<>>}
    THEN [sent |-> <<first,
                     [method |-> "GET", url |-> res.fields[<<"d","o","w","n","l","o","a","d","L","i","n","k">>],
                      headers |-> NoHeaders, params |-> NoKwarg, json |-> NoKwarg]>>,
          result |-> IF d.kind = "response"
                     THEN Return(DictVal((<<"c","o","n","t","e","n","t">> :> d.text) @@ res.fields))
                     ELSE Raise(d.class, d.msg)]
    ELSE [sent |-> <<first>>, result |-> Return(res)]

\* what a tool of the package does after its request first ended with out
ToolsEnd(inv, first, out, d) ==
    IF out.kind = "raise" \/ inv.tool # "get_page_content_export_status"
    THEN [sent |-> <<first>>, result |-> out]
    ELSE pages_download(first, out.value, d)

\* the requests a tool of the package sends and what it ends with, for the
\* response r or the exception e of its request and the answer d of its
\* download
ToolsRun(inv, r, e, d) ==
    ToolsEnd(inv, client_http(ToolsCall(inv.tool, inv.args)), client_request(r, e), d)

\* the tools that both server.py and the package define
SharedTools ==
    { "whoami", "get_doc_info", "delete_doc",
      "update_doc", "list_docs", "create_doc",
      "list_pages", "get_page", "update_page",
      "delete_page", "begin_page_content_export", "get_page_content_export_status",
      "create_page", "list_rows", "get_row",
      "upsert_rows", "update_row", "delete_row",
      "delete_rows" }

SharedInvocations == {inv \in Invocations : inv.tool \in SharedTools}

\* what the round trip of the request gives: a response, or an exception
\* (then the response is NoResponse)
Answers == (TaskResponses \X {NoError}) \cup ({NoResponse} \X TaskErrors)

\* what the download gives
Downloads ==
    {Downloaded(d.status, d.text) : d \in DownloadResponses}
    \cup {DownloadRaised(e) : e \in TaskErrors}

\* the downloads a tool can make: only the export status tool makes one
DownloadsOf(inv) ==
    IF inv.tool = "get_page_content_export_status"
    THEN Downloads
    ELSE {DownloadRaised(e) : e \in TaskErrors}

\* the tool of server.py and the tool of the package run for the same
\* arguments and the same answers of the server, once in a behaviour
RunBoth(inv, answer, d) ==
    /\ pc = "idle"
    /\ server_run = NoRun
    /\ server_run' = ServerRun(inv, answer[1], answer[2], d)
    /\ tools_run' = ToolsRun(inv, answer[1], answer[2], d)
    /\ UNCHANGED <<clientVars, pc, calls, sent, response, failure, outcome, decoded>>
    /\ UNCHANGED <<toolVars, cleanVars, loaded, tasks>>

BothNext ==
    \/ Construct(None)
    \/ \E inv \in SharedInvocations, answer \in Answers :
          \E d \in DownloadsOf(inv) : RunBoth(inv, answer, d)

BothSpec == ToolInit /\ [][BothNext]_vars

\* ------------------------------------------------------------------------
\* clean_params on its own
\* ------------------------------------------------------------------------

CleanKeys == { <<"a">>, <<"b">>, <<"c">> }

\* None, booleans, 0, the empty string, a string, the empty list and lists
\* that hold booleans
CleanValues ==
    { JsonNone, BoolVal(TRUE), BoolVal(FALSE), IntVal(<<"0">>), StrVal(<<>>),
      StrVal(<<"T","r","u","e">>), ListVal(<<>>), ListVal(<< <<"T","r","u","e">>, <<"F","a","l","s","e">> >>) }

\* the mappings given to clean_params: any keys of CleanKeys, any values
CleanInputs == UNION {[keys -> CleanValues] : keys \in SUBSET CleanKeys}

CleanNext == \E m \in CleanInputs : CleanParams(m)

\* the environment plays no part here: the variable is unset
CleanInit == Init /\ environ = None

CleanSpec == CleanInit /\ [][CleanNext]_vars


\* ------------------------------------------------------------------------
\* Properties of CodaClient.request and CodaClient.__init__
\* ------------------------------------------------------------------------

\* the last request call has finished with a response
Responded == pc = "idle" /\ response # NoResponse

\* the last request call has finished with an exception of the round trip
Failed == pc = "idle" /\ failure # NoError

\* the part of a message after a head
After(msg, head) == SubSeq(msg, Len(head) + 1, Len(msg))

\* the retry hint a caller reads from a rate-limit message
RetryHint(msg) == SubSeq(msg, Len(RateLimitHead) + 1, Len(msg) - Len(RateLimitTail))

\* the head of an API error message for a status: "API Error <status>: "
ApiErrorFor(status) == ApiErrorHead \o IntToStr(status) \o ColonSpace

\* C1: every response with status 429 makes request raise the rate-limit
\* error, whose message carries the Retry-After header of the response, or 60
\* when the header is absent, whatever the body is.
C1_RateLimited ==
    (Responded /\ response.status = 429) =>
        /\ outcome.kind = "raise"
        /\ StartsWith(outcome.msg, RateLimitHead)
        /\ RetryHint(outcome.msg) =
               (IF response.retryAfter = None THEN <<"6", "0">> ELSE response.retryAfter)

C1_Witness ==
    /\ Responded /\ response.status = 429 /\ outcome.kind = "raise"
    /\ response.retryAfter # None /\ response.text = BodyMessage

ApiDetail == After(outcome.msg, ApiErrorFor(response.status))

\* the last call got a failing response that is not a 429
FailingResponse == Responded /\ response.status >= 400 /\ response.status # 429

\* C3 as stated: for a failing response, when the body decodes as a JSON object
\* with a `message` or `error` field the API error carries that field's
\* value; otherwise it carries the raw text cut to the display length, or the
\* reason phrase when there is no text.
C3_DetailAsStated ==
    FailingResponse =>
        LET body == JsonLoads(response.text)
        IN  IF IsDict(body) /\ {MessageKey, ErrorKey} \cap DOMAIN body.fields # {}
            THEN ApiDetail \in {body.fields[k] : k \in {MessageKey, ErrorKey} \cap DOMAIN body.fields}
            ELSE IF response.text # <<>>
            THEN ApiDetail = Prefix(response.text, TruncLen)
            ELSE ApiDetail = Reason(response.status)

\* C3 amended: for a failing response whose Content-Type is application/json
\* and whose body decodes as a non-empty JSON object, the API error carries the
\* status code and the `message` field, else the `error` field, else the
\* reason phrase; for every other failing response it carries the whole raw
\* text, not cut, or the reason phrase when the text is empty.
C3_Detail ==
    FailingResponse =>
        /\ StartsWith(outcome.msg, ApiErrorFor(response.status))
        /\ LET body == JsonLoads(response.text)
               has(k) == k \in DOMAIN body.fields
           IN  IF response.jsonCT /\ IsDict(body) /\ DOMAIN body.fields # {}
               THEN /\ has(MessageKey) => ApiDetail = body.fields[MessageKey]
                    /\ (~has(MessageKey) /\ has(ErrorKey)) => ApiDetail = body.fields[ErrorKey]
                    /\ (~has(MessageKey) /\ ~has(ErrorKey)) => ApiDetail = Reason(response.status)
               ELSE IF response.text # <<>>
               THEN ApiDetail = response.text
               ELSE ApiDetail = Reason(response.status)

C3_Witness ==
    /\ FailingResponse /\ response.jsonCT /\ response.text = BodyBoth
    /\ ApiDetail = <<"m">>

\* C4: every response with status 204 makes request return the empty result
\* without a JSON decoding of the body, whatever the body is.
C4_NoContent ==
    (Responded /\ response.status = 204) =>
        /\ outcome = Return(EmptyDict)
        /\ ~decoded

C4_Witness ==
    /\ Responded /\ response.status = 204 /\ response.text = BodyOops
    /\ outcome = Return(EmptyDict)

\* C5: every 2xx response other than 204 whose non-empty body is not valid JSON
\* makes request raise the malformed-response error, whose message carries a
\* prefix of the body of at most 200 characters.
C5_Malformed ==
    (/\ Responded /\ response.status \in 200..299 /\ response.status # 204
     /\ response.text # <<>> /\ JsonLoads(response.text) = JSONDecodeError) =>
        /\ outcome.kind = "raise"
        /\ StartsWith(outcome.msg, InvalidJsonHead)
        /\ LET carried == After(outcome.msg, InvalidJsonHead)
           IN  /\ Len(carried) <= 200
               /\ StartsWith(response.text, carried)
               /\ carried # <<>>

C5_Witness ==
    /\ Responded /\ response.status = 200 /\ response.text = LongBody
    /\ outcome.kind = "raise" /\ Len(outcome.msg) = Len(InvalidJsonHead) + 200

\* C6: every exception of the round trip makes request raise the network
\* error, whose message keeps the message of the cause.
C6_TransportIsNetworkError ==
    Failed =>
        /\ outcome.kind = "raise"
        /\ outcome.msg = NetworkErrorHead \o failure.msg

\* the failure kinds a caller reads from the prefix of a message
KindPrefix ==
    [rate |-> RateLimitHead, api |-> ApiErrorHead,
     malformed |-> InvalidJsonHead, network |-> NetworkErrorHead]

KindsOf(msg) == {k \in DOMAIN KindPrefix : StartsWith(msg, KindPrefix[k])}

\* the failure kinds the last round trip calls for
Cause ==
    IF Failed THEN (IF IsClientError(failure) THEN {"network"} ELSE {})
    ELSE IF ~Responded THEN {}
    ELSE IF response.status = 429 THEN {"rate"}
    ELSE IF response.status >= 400 THEN {"api"}
    ELSE IF outcome.kind = "raise" THEN {"malformed"}
    ELSE {}

\* C7 as stated: a failure of request tells its kind by what is raised: it is
\* not the one generic exception class for every kind.
C7_KindByClass ==
    outcome.kind = "raise" => outcome.class # "Exception"

\* C7 amended: every failure of request is raised as the one generic
\* Exception class and tells its kind only by the prefix of its message: the
\* message of a 429, of a status of 400 or more, of an undecodable body and of
\* an aiohttp.ClientError has the prefix of that kind and of no other kind, and
\* no message has the prefixes of two kinds.
C7_KindByPrefix ==
    outcome.kind = "raise" =>
        /\ outcome.class = "Exception"
        /\ Cardinality(KindsOf(outcome.msg)) <= 1
        /\ Cause # {} => KindsOf(outcome.msg) = Cause

C7_Witness ==
    /\ Failed /\ IsClientError(failure)
    /\ outcome.class = "Exception" /\ KindsOf(outcome.msg) = {"network"}

\* C8: when neither the environment variable nor the argument gives a token,
\* constructing the client fails and no request is ever issued.
C8_NoRequestWithoutCredential ==
    (environ = None /\ api_token = None) => sent = <<>>

C10_ExplicitTokenUsed ==
    api_token # None =>
        \A i \in DOMAIN sent : sent[i].headers.Authorization = BearerText \o api_token

\* ------------------------------------------------------------------------
\* Properties of the tools and of clean_params
\* ------------------------------------------------------------------------

\* a tool has been invoked; the tool has ended
Invoked == tpc # "ready"
Done == tpc = "done"

\* the positions in sent of the requests that request issued: they carry the
\* Authorization header of the client
RequestCalls == {i \in DOMAIN sent : sent[i].headers.Authorization # None}

\* the decoded body of the response to the request of the tool
Payload == JsonLoads(response.text)

\* the tool got a JSON object from its request
GotObject == Invoked /\ Responded /\ outcome.kind = "return" /\ IsDict(Payload)

\* the object of the response is a complete export with a download link
CompleteWithLink ==
    /\ <<"s","t","a","t","u","s">> \in DOMAIN Payload.fields
    /\ Payload.fields[<<"s","t","a","t","u","s">>] = <<"c","o","m","p","l","e","t","e">>
    /\ <<"d","o","w","n","l","o","a","d","L","i","n","k">> \in DOMAIN Payload.fields
    /\ Payload.fields[<<"d","o","w","n","l","o","a","d","L","i","n","k">>] # <<>>

Polling == invocation.tool = "get_page_content_export_status"

\* C11: a call of request makes exactly one round trip and ends with it:
\* whatever the round trip gives, the call ends without another request, and
\* a 404 on the poll of an export ends the tool with the API error after the
\* one request.
C11_OneRoundTrip ==
    /\ [](Cardinality(RequestCalls) = calls)
    /\ [][pc = "awaiting" =>
            (pc' = "idle" /\ outcome'.kind # "none" /\ RequestCalls' = RequestCalls)]_vars
    /\ []((Polling /\ Responded /\ response.status = 404) =>
            /\ Done
            /\ result.kind = "raise"
            /\ StartsWith(result.msg, ApiErrorFor(404))
            /\ Len(sent) = 1)

C11_Witness ==
    /\ Polling /\ Responded /\ response.status = 404 /\ Done
    /\ calls = 1 /\ Len(sent) = 1 /\ result.kind = "raise"

\* C12: when the poll gives a complete export with a download link, the tool
\* issues one more request, a GET of the link without the Authorization header,
\* and returns the object of the poll with the body text of the download under
\* `content`, every other key as it was.
C12_DownloadInlined ==
    /\ (Polling /\ GotObject /\ CompleteWithLink) =>
           /\ tpc \in {"download", "done"}
           /\ Len(sent) = 2
           /\ sent[2].method = "GET"
           /\ sent[2].url = Payload.fields[<<"d","o","w","n","l","o","a","d","L","i","n","k">>]
           /\ sent[2].headers.Authorization = None
    /\ (Polling /\ Done /\ download.kind = "response") =>
           /\ result.kind = "return"
           /\ DOMAIN result.value.fields = DOMAIN Payload.fields \cup {<<"c","o","n","t","e","n","t">>}
           /\ result.value.fields[<<"c","o","n","t","e","n","t">>] = download.text
           /\ \A k \in DOMAIN Payload.fields : result.value.fields[k] = Payload.fields[k]

C12_Witness ==
    /\ Polling /\ Done /\ download.kind = "response" /\ download.status = 200
    /\ result.kind = "return" /\ result.value.fields[<<"c","o","n","t","e","n","t">>] = <<"<","p",">","h","i","<","/","p",">">>
    /\ Len(sent) = 2

\* C13: for a poll that gives a JSON object, the tool makes the download if
\* and only if the object has status "complete" and a non-empty downloadLink;
\* for every other object it returns the object as it is, raises nothing, adds
\* no `content` and has issued one request.
C13_DownloadOnlyWhenComplete ==
    (Polling /\ GotObject) =>
        /\ (Len(sent) = 2) <=> CompleteWithLink
        /\ ~CompleteWithLink =>
               /\ Done
               /\ result = Return(Payload)
               /\ <<"c","o","n","t","e","n","t">> \notin DOMAIN result.value.fields
               /\ Len(sent) = 1
               /\ download = NoDownload

C13_Witness ==
    /\ Polling /\ GotObject /\ response.text = PayloadFailed
    /\ result = Return(Payload) /\ Len(sent) = 1

\* C14: a download that fails, by a status outside 200..299 or by an
\* exception of the round trip, ends the tool with an error.
C14_DownloadFailureSurfaces ==
    (/\ Polling /\ Done
     /\ \/ download.kind = "exception"
        \/ download.kind = "response" /\ download.status \notin 200..299) =>
        result.kind = "raise"

\* C15: begin_page_content_export issues one POST to
\* docs/{doc}/pages/{page}/export with the body {"outputFormat": fmt}, fmt
\* being "html" when it is left out, issues no other request, and ends with
\* what request ended with, the decoded object of the response unchanged.
C15_BeginExport ==
    invocation.tool = "begin_page_content_export" =>
        /\ Len(sent) = 1
        /\ sent[1].method = "POST"
        /\ sent[1].url = BaseUrl \o <<"/","d","o","c","s","/","d","o","c","1","/","p","a","g","e","s","/","p","a","g","e","1","/","e","x","p","o","r","t">>
        /\ sent[1].json =
               Kwarg(<<"o","u","t","p","u","t","F","o","r","m","a","t">> :>
                        (IF invocation.args.output_format = Omitted
                         THEN StrVal(<<"h","t","m","l">>) ELSE invocation.args.output_format))
        /\ ~sent[1].params.given
        /\ download = NoDownload
        /\ Done => result = outcome
        /\ GotObject => (Done /\ result = Return(Payload))

C15_Witness ==
    /\ invocation.tool = "begin_page_content_export" /\ Done
    /\ invocation.args.output_format = StrVal(<<"m","a","r","k","d","o","w","n">>)
    /\ response.text = PayloadComplete /\ response.status = 200
    /\ result = Return(Payload) /\ Len(sent) = 1

\* C16: clean_params returns a mapping whose keys are the keys of its argument
\* whose value is not None, and every value that is not a boolean is mapped to
\* itself.
C16_CleanParams ==
    /\ DOMAIN params_out = {k \in DOMAIN params_in : params_in[k] # JsonNone}
    /\ \A k \in DOMAIN params_out :
           params_in[k].type # "bool" => params_out[k] = params_in[k]

C16_Witness ==
    /\ DOMAIN params_in = CleanKeys
    /\ params_in[<<"a">>] = JsonNone
    /\ params_in[<<"b">>] = ListVal(<< <<"T","r","u","e">>, <<"F","a","l","s","e">> >>)
    /\ params_in[<<"c">>] = IntVal(<<"0">>)
    /\ DOMAIN params_out = { <<"b">>, <<"c">> }
    /\ params_out[<<"b">>] = params_in[<<"b">>]

\* the boolean arguments of the tools that send a query string, each with its
\* key in the query
QueryBooleans(tool) ==
    CASE tool = "list_docs" ->
             { <<"is_owner", <<"i","s","O","w","n","e","r">>>>, <<"is_published", <<"i","s","P","u","b","l","i","s","h","e","d">>>>,
               <<"is_starred", <<"i","s","S","t","a","r","r","e","d">>>>, <<"in_gallery", <<"i","n","G","a","l","l","e","r","y">>>> }
      [] tool = "list_columns" -> { <<"visible_only", <<"v","i","s","i","b","l","e","O","n","l","y">>>> }
      [] tool = "list_rows" ->
             { <<"use_column_names", <<"u","s","e","C","o","l","u","m","n","N","a","m","e","s">>>>,
               <<"visible_only", <<"v","i","s","i","b","l","e","O","n","l","y">>>> }
      [] tool = "get_row" -> { <<"use_column_names", <<"u","s","e","C","o","l","u","m","n","N","a","m","e","s">>>> }
      [] OTHER -> {}

\* the wire string of a boolean
WireString(v) == IF v = BoolVal(TRUE) THEN StrVal(<<"t","r","u","e">>) ELSE StrVal(<<"f","a","l","s","e">>)

\* C17: in the query mapping of list_docs, list_columns, list_rows and get_row
\* a boolean argument that is given is the string "true" or "false", and no
\* value of the mapping is a boolean.
C17_QueryBooleans ==
    Invoked =>
        \A p \in QueryBooleans(invocation.tool) :
            LET query == sent[1].params.map
            IN  /\ \A k \in DOMAIN query : query[k].type # "bool"
                /\ invocation.args[p[1]] \in Bools =>
                       /\ p[2] \in DOMAIN query
                       /\ query[p[2]] = WireString(invocation.args[p[1]])

C17_Witness ==
    /\ invocation.tool = "list_rows"
    /\ invocation.args.use_column_names = BoolVal(TRUE)
    /\ invocation.args.visible_only = BoolVal(FALSE)
    /\ sent[1].params.map[<<"u","s","e","C","o","l","u","m","n","N","a","m","e","s">>] = StrVal(<<"t","r","u","e">>)
    /\ sent[1].params.map[<<"v","i","s","i","b","l","e","O","n","l","y">>] = StrVal(<<"f","a","l","s","e">>)

\* the boolean arguments of the tools that send a JSON body, each with its key
\* in the body
BodyBooleans(tool) ==
    CASE tool = "update_page" -> { <<"is_hidden", <<"i","s","H","i","d","d","e","n">>>> }
      [] tool = "upsert_rows" -> { <<"disable_parsing", <<"d","i","s","a","b","l","e","P","a","r","s","i","n","g">>>> }
      [] tool = "update_row" -> { <<"disable_parsing", <<"d","i","s","a","b","l","e","P","a","r","s","i","n","g">>>> }
      [] OTHER -> {}

\* C18: in the JSON body of update_page, upsert_rows and update_row a boolean
\* argument that is given is the boolean itself, not a string.
C18_BodyBooleansNative ==
    Invoked =>
        \A p \in BodyBooleans(invocation.tool) :
            invocation.args[p[1]] \in Bools =>
                /\ p[2] \in DOMAIN sent[1].json.map
                /\ sent[1].json.map[p[2]] = invocation.args[p[1]]

\* the optional arguments of list_docs, each with its key in the query
ListDocsOptional ==
    { <<"source_doc", <<"s","o","u","r","c","e","D","o","c">>>>, <<"is_starred", <<"i","s","S","t","a","r","r","e","d">>>>,
      <<"in_gallery", <<"i","n","G","a","l","l","e","r","y">>>>, <<"workspace_id", <<"w","o","r","k","s","p","a","c","e","I","d">>>>,
      <<"folder_id", <<"f","o","l","d","e","r","I","d">>>>, <<"limit", <<"l","i","m","i","t">>>>,
      <<"page_token", <<"p","a","g","e","T","o","k","e","n">>>> }

\* C19: the query mapping of list_docs has isOwner and isPublished as "true"
\* or "false", query as given, each optional key exactly when its argument is
\* not None, and no other key.
C19_ListDocsQuery ==
    invocation.tool = "list_docs" =>
        LET query == sent[1].params.map
            a == invocation.args
        IN  /\ sent[1].params.given /\ ~sent[1].json.given
            /\ DOMAIN query =
                   {<<"i","s","O","w","n","e","r">>, <<"i","s","P","u","b","l","i","s","h","e","d">>, <<"q","u","e","r","y">>}
                   \cup {p[2] : p \in {o \in ListDocsOptional : a[o[1]] # JsonNone}}
            /\ query[<<"i","s","O","w","n","e","r">>] = WireString(a.is_owner)
            /\ query[<<"i","s","P","u","b","l","i","s","h","e","d">>] = WireString(a.is_published)
            /\ query[<<"q","u","e","r","y">>] = a.query

C19_Witness ==
    /\ invocation.tool = "list_docs"
    /\ invocation.args.is_owner = BoolVal(TRUE)
    /\ invocation.args.is_published = BoolVal(FALSE)
    /\ invocation.args.query = StrVal(<<"x">>)
    /\ DOMAIN sent[1].params.map = {<<"i","s","O","w","n","e","r">>, <<"i","s","P","u","b","l","i","s","h","e","d">>, <<"q","u","e","r","y">>}
    /\ sent[1].params.map[<<"i","s","P","u","b","l","i","s","h","e","d">>] = StrVal(<<"f","a","l","s","e">>)

\* C20: the body of upsert_rows has rows as given, keyColumns exactly when
\* key_columns is not None, disableParsing exactly when disable_parsing is not
\* None, and no other key.
C20_UpsertBody ==
    invocation.tool = "upsert_rows" =>
        LET body == sent[1].json.map
            a == invocation.args
        IN  /\ sent[1].json.given /\ ~sent[1].params.given
            /\ DOMAIN body =
                   {<<"r","o","w","s">>}
                   \cup (IF a.key_columns # JsonNone THEN {<<"k","e","y","C","o","l","u","m","n","s">>} ELSE {})
                   \cup (IF a.disable_parsing # JsonNone THEN {<<"d","i","s","a","b","l","e","P","a","r","s","i","n","g">>} ELSE {})
            /\ body[<<"r","o","w","s">>] = a.rows

C20_Witness ==
    /\ invocation.tool = "upsert_rows"
    /\ invocation.args.rows = SomeRows
    /\ invocation.args.key_columns = SomeKeyColumns
    /\ invocation.args.disable_parsing = JsonNone
    /\ DOMAIN sent[1].json.map = {<<"r","o","w","s">>, <<"k","e","y","C","o","l","u","m","n","s">>}
    /\ sent[1].json.map[<<"k","e","y","C","o","l","u","m","n","s">>] = SomeKeyColumns

\* a mapping without its `content` key
WithoutContent(fields) == [k \in DOMAIN fields \ {<<"c","o","n","t","e","n","t">>} |-> fields[k]]

\* C21: every tool other than get_page_content_export_status ends with what
\* its one request call ended with, the returned value unchanged, and has sent
\* the one request; what get_page_content_export_status returns differs from
\* the value of its request call in no key but `content`, and differs at all
\* only after the download of a complete export.
C21_PassThrough ==
    /\ (Done /\ ~Polling) =>
           /\ result = outcome
           /\ Len(sent) = 1
           /\ download = NoDownload
    /\ (Done /\ Polling /\ result.kind = "return") =>
           /\ outcome.kind = "return"
           /\ WithoutContent(result.value.fields) = WithoutContent(outcome.value.fields)
           /\ result.value.type = outcome.value.type
           /\ result.value.items = outcome.value.items
           /\ result.value # outcome.value =>
                  (download.kind = "response" /\ CompleteWithLink)

C21_Witness ==
    /\ Done /\ invocation.tool = "get_row"
    /\ response.status = 200 /\ response.text = PayloadComplete
    /\ result = Return(Payload) /\ result = outcome
    /\ <<"c","o","n","t","e","n","t">> \notin DOMAIN result.value.fields

\* C22: concurrent invocations are independent: a step of one invocation
\* changes nothing of another, the client they share is never changed, the
\* request of each invocation is the request of its own arguments, and what
\* each ends with, and the requests it sent, are what the tool gives on its
\* own for the arguments and the responses of that invocation, whatever the
\* other invocations did in between.
C22_Independent ==
    /\ [][\A t \in Tasks : tasks'[t] # tasks[t] =>
              (\A u \in Tasks \ {t} : tasks'[u] = tasks[u])]_vars
    /\ [][pc # "start" => client' = client]_vars
    /\ [](\A t \in Tasks : tasks[t].tpc # "ready" =>
              tasks[t].sent[1] = HttpRequest(ToolCall(tasks[t].invocation.tool, tasks[t].invocation.args)))
    /\ [](\A t \in Tasks : tasks[t].tpc = "done" =>
              [sent |-> tasks[t].sent, result |-> tasks[t].result] =
                  ServerRun(tasks[t].invocation, tasks[t].response, tasks[t].failure,
                            tasks[t].download))

C22_Witness ==
    /\ tasks[1].tpc = "done" /\ tasks[2].tpc = "done"
    /\ tasks[1].invocation.tool = "get_page_content_export_status"
    /\ tasks[1].download.kind = "response" /\ tasks[1].result.kind = "return"
    /\ tasks[2].invocation.tool = "get_row"
    /\ tasks[2].response.status = 404 /\ tasks[2].result.kind = "raise"

\* the positions in sent of the requests to the API, which request issued:
\* their URL is under the base URL
ApiRequests == {i \in DOMAIN sent : StartsWith(sent[i].url, BaseUrl \o <<"/">>)}

\* C23: once the client is constructed its token, base URL and headers never
\* change, and every request that request issues, for whatever tool, carries
\* the headers of the client: "Authorization: Bearer <token>" and
\* "Content-Type: application/json", the same in every request.
C23_HeadersFixed ==
    /\ [][pc # "start" => client' = client]_vars
    /\ [](Cardinality(ApiRequests) = calls)
    /\ [](\A i \in ApiRequests :
              /\ sent[i].headers = client.headers
              /\ sent[i].headers.Authorization = BearerText \o PyStr(client.api_token)
              /\ sent[i].headers.ContentType = ApplicationJson)
    /\ [](\A i, j \in ApiRequests : sent[i].headers = sent[j].headers)

C23_Witness ==
    /\ calls = 2 /\ Cardinality(ApiRequests) = 2 /\ Len(sent) = 3
    /\ sent[1].json # sent[3].json
    /\ sent[1].headers = sent[3].headers
    /\ sent[1].headers.Authorization = BearerText \o <<"e","n","v","k","e","y">>

\* C26: the client is constructed, and its Authorization header computed,
\* before main calls load_dotenv(): load_dotenv() leaves the client as it is,
\* every request carries the header computed at the construction, and a key
\* that the environment has only since load_dotenv() is in no request, which
\* carry "Bearer None".
C26_ImportBeforeDotenv ==
    /\ [](loaded => pc # "start")
    /\ [][(loaded' /\ ~loaded) => client' = client]_vars
    /\ [](\A i \in ApiRequests :
              sent[i].headers.Authorization = BearerText \o PyStr(client.api_token))
    /\ []((pc # "start" /\ environ # client.api_token) =>
              /\ loaded
              /\ client.api_token = None
              /\ \A i \in ApiRequests :
                     /\ sent[i].headers.Authorization = <<"B","e","a","r","e","r"," ","N","o","n","e">>
                     /\ sent[i].headers.Authorization # BearerText \o environ)

C26_Witness ==
    /\ loaded /\ environ = <<"f","i","l","e","k","e","y">> /\ client.api_token = None
    /\ calls = 1 /\ sent[1].headers.Authorization = <<"B","e","a","r","e","r"," ","N","o","n","e">>

\* C24: when the request call of a tool fails, the tool ends with that same
\* error, not with a value, and has sent the one request only: no download
\* follows a failed poll.
C24_ErrorPropagates ==
    (Invoked /\ pc = "idle" /\ outcome.kind = "raise") =>
        /\ Done
        /\ result.kind = "raise"
        /\ result = outcome
        /\ Len(sent) = 1
        /\ download = NoDownload

C24_Witness ==
    /\ invocation.tool = "list_rows" /\ Done
    /\ response.status = 429 /\ outcome.kind = "raise"
    /\ result = outcome /\ StartsWith(result.msg, RateLimitHead)
    /\ Len(sent) = 1

\* the segments of a path: its parts between the "/"
RECURSIVE Segments(_)
Segments(s) ==
    IF \A i \in DOMAIN s : s[i] # "/"
    THEN <<s>>
    ELSE LET i == CHOOSE j \in DOMAIN s : s[j] = "/" /\ \A k \in 1..(j - 1) : s[k] # "/"
         IN  <<SubSeq(s, 1, i - 1)>> \o Segments(SubSeq(s, i + 1, Len(s)))

\* the place of an identifier in a path template
Slot == <<"{}">>

ToolNames ==
    { "whoami", "get_doc_info", "delete_doc", "update_doc", "list_docs",
      "create_doc", "list_pages", "get_page", "update_page", "delete_page",
      "begin_page_content_export", "get_page_content_export_status",
      "create_page", "list_tables", "get_table", "list_columns",
      "get_column", "list_rows", "get_row", "upsert_rows", "update_row",
      "delete_row", "delete_rows", "push_button", "list_formulas",
      "get_formula" }

\* the verb of each tool
ToolVerb(tool) ==
    CASE tool = "whoami" -> "GET"
      [] tool = "get_doc_info" -> "GET"
      [] tool = "delete_doc" -> "DELETE"
      [] tool = "update_doc" -> "PATCH"
      [] tool = "list_docs" -> "GET"
      [] tool = "create_doc" -> "POST"
      [] tool = "list_pages" -> "GET"
      [] tool = "get_page" -> "GET"
      [] tool = "update_page" -> "PUT"
      [] tool = "delete_page" -> "DELETE"
      [] tool = "begin_page_content_export" -> "POST"
      [] tool = "get_page_content_export_status" -> "GET"
      [] tool = "create_page" -> "POST"
      [] tool = "list_tables" -> "GET"
      [] tool = "get_table" -> "GET"
      [] tool = "list_columns" -> "GET"
      [] tool = "get_column" -> "GET"
      [] tool = "list_rows" -> "GET"
      [] tool = "get_row" -> "GET"
      [] tool = "upsert_rows" -> "POST"
      [] tool = "update_row" -> "PUT"
      [] tool = "delete_row" -> "DELETE"
      [] tool = "delete_rows" -> "DELETE"
      [] tool = "push_button" -> "POST"
      [] tool = "list_formulas" -> "GET"
      [] tool = "get_formula" -> "GET"

\* the path template of each tool, by segments
ToolTemplate(tool) ==
    CASE tool = "whoami" -> <<<<"w","h","o","a","m","i">>>>
      [] tool = "get_doc_info" -> <<<<"d","o","c","s">>, Slot>>
      [] tool = "delete_doc" -> <<<<"d","o","c","s">>, Slot>>
      [] tool = "update_doc" -> <<<<"d","o","c","s">>, Slot>>
      [] tool = "list_docs" -> <<<<"d","o","c","s">>>>
      [] tool = "create_doc" -> <<<<"d","o","c","s">>>>
      [] tool = "list_pages" -> <<<<"d","o","c","s">>, Slot, <<"p","a","g","e","s">>>>
      [] tool = "get_page" -> <<<<"d","o","c","s">>, Slot, <<"p","a","g","e","s">>, Slot>>
      [] tool = "update_page" -> <<<<"d","o","c","s">>, Slot, <<"p","a","g","e","s">>, Slot>>
      [] tool = "delete_page" -> <<<<"d","o","c","s">>, Slot, <<"p","a","g","e","s">>, Slot>>
      [] tool = "begin_page_content_export" -> <<<<"d","o","c","s">>, Slot, <<"p","a","g","e","s">>, Slot, <<"e","x","p","o","r","t">>>>
      [] tool = "get_page_content_export_status" -> <<<<"d","o","c","s">>, Slot, <<"p","a","g","e","s">>, Slot, <<"e","x","p","o","r","t">>, Slot>>
      [] tool = "create_page" -> <<<<"d","o","c","s">>, Slot, <<"p","a","g","e","s">>>>
      [] tool = "list_tables" -> <<<<"d","o","c","s">>, Slot, <<"t","a","b","l","e","s">>>>
      [] tool = "get_table" -> <<<<"d","o","c","s">>, Slot, <<"t","a","b","l","e","s">>, Slot>>
      [] tool = "list_columns" -> <<<<"d","o","c","s">>, Slot, <<"t","a","b","l","e","s">>, Slot, <<"c","o","l","u","m","n","s">>>>
      [] tool = "get_column" -> <<<<"d","o","c","s">>, Slot, <<"t","a","b","l","e","s">>, Slot, <<"c","o","l","u","m","n","s">>, Slot>>
      [] tool = "list_rows" -> <<<<"d","o","c","s">>, Slot, <<"t","a","b","l","e","s">>, Slot, <<"r","o","w","s">>>>
      [] tool = "get_row" -> <<<<"d","o","c","s">>, Slot, <<"t","a","b","l","e","s">>, Slot, <<"r","o","w","s">>, Slot>>
      [] tool = "upsert_rows" -> <<<<"d","o","c","s">>, Slot, <<"t","a","b","l","e","s">>, Slot, <<"r","o","w","s">>>>
      [] tool = "update_row" -> <<<<"d","o","c","s">>, Slot, <<"t","a","b","l","e","s">>, Slot, <<"r","o","w","s">>, Slot>>
      [] tool = "delete_row" -> <<<<"d","o","c","s">>, Slot, <<"t","a","b","l","e","s">>, Slot, <<"r","o","w","s">>, Slot>>
      [] tool = "delete_rows" -> <<<<"d","o","c","s">>, Slot, <<"t","a","b","l","e","s">>, Slot, <<"r","o","w","s">>>>
      [] tool = "push_button" -> <<<<"d","o","c","s">>, Slot, <<"t","a","b","l","e","s">>, Slot, <<"r","o","w","s">>, Slot, <<"b","u","t","t","o","n","s">>, Slot>>
      [] tool = "list_formulas" -> <<<<"d","o","c","s">>, Slot, <<"f","o","r","m","u","l","a","s">>>>
      [] tool = "get_formula" -> <<<<"d","o","c","s">>, Slot, <<"f","o","r","m","u","l","a","s">>, Slot>>

\* the identifiers of an invocation, in the order of the slots of its template
ToolIds(tool, a) ==
    CASE tool = "whoami" -> <<>>
      [] tool = "get_doc_info" -> <<Format(a.doc_id)>>
      [] tool = "delete_doc" -> <<Format(a.doc_id)>>
      [] tool = "update_doc" -> <<Format(a.doc_id)>>
      [] tool = "list_docs" -> <<>>
      [] tool = "create_doc" -> <<>>
      [] tool = "list_pages" -> <<Format(a.doc_id)>>
      [] tool = "get_page" -> <<Format(a.doc_id), Format(a.page_id_or_name)>>
      [] tool = "update_page" -> <<Format(a.doc_id), Format(a.page_id_or_name)>>
      [] tool = "delete_page" -> <<Format(a.doc_id), Format(a.page_id_or_name)>>
      [] tool = "begin_page_content_export" -> <<Format(a.doc_id), Format(a.page_id_or_name)>>
      [] tool = "get_page_content_export_status" -> <<Format(a.doc_id), Format(a.page_id_or_name), Format(a.request_id)>>
      [] tool = "create_page" -> <<Format(a.doc_id)>>
      [] tool = "list_tables" -> <<Format(a.doc_id)>>
      [] tool = "get_table" -> <<Format(a.doc_id), Format(a.table_id_or_name)>>
      [] tool = "list_columns" -> <<Format(a.doc_id), Format(a.table_id_or_name)>>
      [] tool = "get_column" -> <<Format(a.doc_id), Format(a.table_id_or_name), Format(a.column_id_or_name)>>
      [] tool = "list_rows" -> <<Format(a.doc_id), Format(a.table_id_or_name)>>
      [] tool = "get_row" -> <<Format(a.doc_id), Format(a.table_id_or_name), Format(a.row_id_or_name)>>
      [] tool = "upsert_rows" -> <<Format(a.doc_id), Format(a.table_id_or_name)>>
      [] tool = "update_row" -> <<Format(a.doc_id), Format(a.table_id_or_name), Format(a.row_id_or_name)>>
      [] tool = "delete_row" -> <<Format(a.doc_id), Format(a.table_id_or_name), Format(a.row_id_or_name)>>
      [] tool = "delete_rows" -> <<Format(a.doc_id), Format(a.table_id_or_name)>>
      [] tool = "push_button" -> <<Format(a.doc_id), Format(a.table_id_or_name), Format(a.row_id_or_name), Format(a.column_id_or_name)>>
      [] tool = "list_formulas" -> <<Format(a.doc_id)>>
      [] tool = "get_formula" -> <<Format(a.doc_id), Format(a.formula_id_or_name)>>

\* a template with its slots filled by identifiers, joined by "/"
RECURSIVE Fill(_, _)
Fill(tmpl, ids) ==
    IF tmpl = <<>> THEN <<>>
    ELSE LET seg == IF Head(tmpl) = Slot THEN Head(ids) ELSE Head(tmpl)
             rest == Fill(Tail(tmpl), IF Head(tmpl) = Slot THEN Tail(ids) ELSE ids)
         IN  IF Tail(tmpl) = <<>> THEN seg ELSE seg \o <<"/">> \o rest

\* the segments have the structure of the template: as many, and equal where
\* the template has a literal
Matches(segs, tmpl) ==
    /\ Len(segs) = Len(tmpl)
    /\ \A i \in DOMAIN tmpl : tmpl[i] = Slot \/ tmpl[i] = segs[i]

\* the path of the first request of the invoked tool
SentPath == After(sent[1].url, BaseUrl \o <<"/">>)

\* C25: the request of a tool has the verb of the tool and the URL of the base
\* URL, "/" and the template of the tool with the identifiers of the
\* invocation in its slots; the path has the segment structure of the
\* template of the tool and of no other template; delete_rows sends the body
\* {rowIds}.
C25_OneTemplate ==
    Invoked =>
        /\ sent[1].method = ToolVerb(invocation.tool)
        /\ sent[1].url = BaseUrl \o <<"/">>
               \o Fill(ToolTemplate(invocation.tool), ToolIds(invocation.tool, invocation.args))
        /\ Matches(Segments(SentPath), ToolTemplate(invocation.tool))
        /\ \A other \in ToolNames :
               ToolTemplate(other) # ToolTemplate(invocation.tool) =>
                   ~Matches(Segments(SentPath), ToolTemplate(other))
        /\ invocation.tool = "delete_rows" =>
               sent[1].json = Kwarg(<<"r","o","w","I","d","s">> :> invocation.args.row_ids)

\* C27: what request ends with for a response is fixed by the status, the
\* Retry-After header and the body, in this order: 429 gives the rate-limit
\* error, whatever the body; else a status of 400 or more gives the API error;
\* else 204 gives {}; else an empty body gives {}; else a body that decodes
\* gives the decoded value and one that does not gives the malformed-response
\* error. Every response gives one of these and no failure of two kinds.
C27_Classification ==
    Responded =>
        /\ outcome.kind \in {"return", "raise"}
        /\ outcome.kind = "raise" => Cardinality(KindsOf(outcome.msg)) = 1
        /\ IF response.status = 429
           THEN /\ outcome.kind = "raise"
                /\ ~decoded
                /\ outcome.msg = RateLimitHead
                       \o (IF response.retryAfter = None THEN <<"6", "0">> ELSE response.retryAfter)
                       \o RateLimitTail
           ELSE IF response.status >= 400
           THEN outcome.kind = "raise" /\ KindsOf(outcome.msg) = {"api"}
           ELSE IF response.status = 204
           THEN outcome = Return(EmptyDict)
           ELSE IF response.text = <<>>
           THEN outcome = Return(EmptyDict)
           ELSE IF JsonLoads(response.text) # JSONDecodeError
           THEN outcome = Return(JsonLoads(response.text))
           ELSE outcome.kind = "raise" /\ KindsOf(outcome.msg) = {"malformed"}

C27_Witness ==
    /\ Responded /\ response.status = 200 /\ response.text = <<>>
    /\ outcome = Return(EmptyDict) /\ ~decoded

\* the body of the failing response is a non-empty JSON object
ObjectBody == IsDict(JsonLoads(response.text)) /\ DOMAIN JsonLoads(response.text).fields # {}

\* C28 as stated: for a failing response whose body is a JSON object, the
\* error carries `message` when the object has both `message` and `error`, and
\* the reason phrase, not the raw text, when the object is not empty and has
\* neither; the raw text is carried only when the body is not a non-empty JSON
\* object and the text is not empty.
C28_ObjectDetailAsStated ==
    FailingResponse =>
        LET body == JsonLoads(response.text)
        IN  /\ (ObjectBody /\ {MessageKey, ErrorKey} \subseteq DOMAIN body.fields) =>
                   ApiDetail = body.fields[MessageKey]
            /\ (ObjectBody /\ {MessageKey, ErrorKey} \cap DOMAIN body.fields = {}) =>
                   (ApiDetail = Reason(response.status) /\ ApiDetail # response.text)
            /\ ApiDetail = response.text => (~ObjectBody /\ response.text # <<>>)

\* C28 amended: the same for a failing response whose Content-Type is
\* application/json; the raw text, whole, is carried when the text is not empty
\* and the response is not one of that Content-Type with a non-empty JSON
\* object as its body, and only then.
C28_ObjectDetail ==
    FailingResponse =>
        LET body == JsonLoads(response.text)
        IN  /\ (response.jsonCT /\ ObjectBody /\ {MessageKey, ErrorKey} \subseteq DOMAIN body.fields) =>
                   ApiDetail = body.fields[MessageKey]
            /\ (response.jsonCT /\ ObjectBody /\ {MessageKey, ErrorKey} \cap DOMAIN body.fields = {}) =>
                   (ApiDetail = Reason(response.status) /\ ApiDetail # response.text)
            /\ ApiDetail = response.text <=>
                   (~(response.jsonCT /\ ObjectBody) /\ response.text # <<>>)

C28_Witness ==
    /\ FailingResponse /\ response.jsonCT /\ response.text = BodyOther
    /\ ApiDetail = Reason(response.status)

\* the optional arguments of create_doc, each with its key in the body
CreateDocOptional ==
    { <<"source_doc", <<"s","o","u","r","c","e","D","o","c">>>>, <<"timezone", <<"t","i","m","e","z","o","n","e">>>>,
      <<"folder_id", <<"f","o","l","d","e","r","I","d">>>>, <<"workspace_id", <<"w","o","r","k","s","p","a","c","e","I","d">>>>,
      <<"initial_page", <<"i","n","i","t","i","a","l","P","a","g","e">>>> }

\* optional arguments of the tools that test `is not None`, or clean their
\* data, which the model gives as the empty string too
KeptWhenEmpty(tool) ==
    CASE tool = "update_doc" -> { <<"title", <<"t","i","t","l","e">>>> }
      [] tool = "update_page" -> { <<"subtitle", <<"s","u","b","t","i","t","l","e">>>> }
      [] tool = "create_page" -> { <<"subtitle", <<"s","u","b","t","i","t","l","e">>>> }
      [] OTHER -> {}

\* an argument that is None, the empty string or the empty mapping
Empty(v) == v \in {JsonNone, StrVal(<<>>), DictVal(EmptyFields)}

\* C29: create_doc posts to docs the body of `title` and of each optional
\* argument that is not None, not the empty string and not the empty mapping,
\* under its key and as given, and of nothing else; update_doc, update_page and
\* create_page keep an optional argument that is given as the empty string.
C29_CreateDocTruthy ==
    /\ (Invoked /\ invocation.tool = "create_doc") =>
           LET a == invocation.args
               body == sent[1].json.map
           IN  /\ sent[1].method = "POST"
               /\ sent[1].url = BaseUrl \o <<"/","d","o","c","s">>
               /\ sent[1].json.given /\ ~sent[1].params.given
               /\ DOMAIN body = {<<"t","i","t","l","e">>} \cup {o[2] : o \in {x \in CreateDocOptional : ~Empty(a[x[1]])}}
               /\ body[<<"t","i","t","l","e">>] = a.title
               /\ \A o \in CreateDocOptional : ~Empty(a[o[1]]) => body[o[2]] = a[o[1]]
    /\ Invoked =>
           \A o \in KeptWhenEmpty(invocation.tool) :
               /\ (o[2] \in DOMAIN sent[1].json.map) <=> (invocation.args[o[1]] # JsonNone)
               /\ invocation.args[o[1]] = StrVal(<<>>) => sent[1].json.map[o[2]] = StrVal(<<>>)

C29_Witness ==
    /\ Invoked /\ invocation.tool = "create_doc"
    /\ invocation.args.source_doc = StrVal(<<>>)
    /\ invocation.args.initial_page = DictVal(EmptyFields)
    /\ invocation.args.timezone # JsonNone
    /\ DOMAIN sent[1].json.map = {<<"t","i","t","l","e">>, <<"t","i","m","e","z","o","n","e">>}

====
